---- MODULE Spec2Model ----
(***************************************************************************)
(* A model of the diff-parsing engine (app/services/diff_parser.py) and of *)
(* the multi-agent orchestration layer (app/orchestrator/                  *)
(* review_orchestrator.py, app/agents/base_agent.py).                      *)
(*                                                                         *)
(* Text is modelled as text: a diff is the sequence of its lines           *)
(* (diff_text.split('\n')), every line a string, and the parser's regular  *)
(* expressions are computed character by character.  Python's None is the  *)
(* empty tuple and a present value x is <<x>>.                             *)
(***************************************************************************)
EXTENDS Integers, Sequences, FiniteSets, Bags, TLC

VARIABLES
    \* DiffParser.parse: the lines of the text, the loop index, the locals
    \* and the position of the call
    lines, i, file_diffs, current_file, current_hunk, pc,
    \* ReviewOrchestrator: the registered agents
    agents,
    \* review_diff: its mode, the locals (the index of the file the loop is
    \* at, its code context, the two lists, the futures of the pool, the
    \* index of the agent the sequential loop is at), what it returned and
    \* the position of the call; the parsed files are file_diffs, the text
    \* is lines
    parallel, file_idx, code_context, all_findings, agent_results, futures,
    agent_idx, result, rpc,
    \* the language model: the answer it has given for each agent and code
    \* context it was asked about
    llm,
    \* history: the analyzer invocations of the call, in the order they
    \* were collected; the finding list as it was before the sort; the
    \* outcome of the previous call of review_diff
    invoked, collected, previous,
    \* review_github_pr: the provider the orchestrator was built with, the
    \* post_comments argument, the position of the call, the calls made on
    \* the provider so far, the locals pr_info and review_result and the
    \* message of the exception that left the function
    github_client, post_comments, gpc, provider_calls, pr_info, review_result,
    pr_error,
    \* calls of review_diff made at once on one orchestrator: the locals of
    \* each call
    calls,
    \* the invocations that never return, the language model never
    \* answering: pairs of the index of an agent and the index of a file
    hanging

parser_vars == <<i, current_file, current_hunk, pc>>

review_vars == <<agents, parallel, file_idx, code_context, all_findings,
                 agent_results, futures, agent_idx, result, rpc, llm,
                 invoked, collected, previous>>

pr_vars == <<github_client, post_comments, gpc, provider_calls, pr_info,
             review_result, pr_error>>

vars == <<lines, file_diffs, parser_vars, review_vars, pr_vars, calls, hanging>>

---------------------------------------------------------------------------
(* Optional values *)

None == <<>>

Some(x) == <<x>>

---------------------------------------------------------------------------
(* Strings: the str methods and the regular-expression pieces used by the  *)
(* parser                                                                  *)

\* the characters of s at positions from..to (1-based, inclusive), clipped to
\* the string as a Python slice is: "" when the range is empty
Sub(s, from, to) ==
    LET a == IF from < 1 THEN 1 ELSE from
        b == IF to > Len(s) THEN Len(s) ELSE to
    IN  IF a > b THEN "" ELSE SubSeq(s, a, b)

\* the character at position k, "" past the end
CharAt(s, k) == Sub(s, k, k)

\* s[k:] for a 0-based k (line[1:] is Slice(line, 1))
Slice(s, k) == Sub(s, k + 1, Len(s))

\* str.startswith
startswith(s, p) == Len(s) >= Len(p) /\ SubSeq(s, 1, Len(p)) = p

Whitespace == {" ", "\t", "\r"}

Digits == {"0", "1", "2", "3", "4", "5", "6", "7", "8", "9"}

DigitVal(c) ==
    CASE c = "0" -> 0 [] c = "1" -> 1 [] c = "2" -> 2 [] c = "3" -> 3
      [] c = "4" -> 4 [] c = "5" -> 5 [] c = "6" -> 6 [] c = "7" -> 7
      [] c = "8" -> 8 [] c = "9" -> 9

RECURSIVE LStrip(_)
LStrip(s) ==
    IF Len(s) > 0 /\ CharAt(s, 1) \in Whitespace THEN LStrip(Slice(s, 1)) ELSE s

RECURSIVE RStrip(_)
RStrip(s) ==
    IF Len(s) > 0 /\ CharAt(s, Len(s)) \in Whitespace
    THEN RStrip(Sub(s, 1, Len(s) - 1))
    ELSE s

\* str.strip
strip(s) == RStrip(LStrip(s))

\* the end of the longest run of digits of s that starts at position k
\* (k - 1 when s has no digit at k): the greedy \d+
RECURSIVE DigitsEnd(_, _)
DigitsEnd(s, k) ==
    IF k <= Len(s) /\ CharAt(s, k) \in Digits THEN DigitsEnd(s, k + 1) ELSE k - 1

\* int() of the digits s[from..to]
RECURSIVE int(_, _, _)
int(s, from, to) ==
    IF to < from THEN 0
    ELSE 10 * int(s, from, to - 1) + DigitVal(CharAt(s, to))

\* ^<prefix>\d+$
PrefixThenDigits(s, p) ==
    /\ startswith(s, p)
    /\ Len(s) > Len(p)
    /\ DigitsEnd(s, Len(p) + 1) = Len(s)

\* ^<prefix>(.+)$ : the group, or None
PrefixThenAny(s, p) ==
    IF startswith(s, p) /\ Len(s) > Len(p) THEN Some(Slice(s, Len(p))) ELSE None

---------------------------------------------------------------------------
(* The parser's patterns (DiffParser.__init__).  A match is Some(groups),  *)
(* no match is None.                                                       *)

\* the positions k at which " b/" can split "diff --git a/<old> b/<new>"
\* with both groups non-empty
FileHeaderSplits(s) ==
    {k \in 15..(Len(s) - 3) : Sub(s, k, k + 2) = " b/"}

SetMax(S) == CHOOSE m \in S : \A n \in S : n <= m

\* ^diff --git a/(.+) b/(.+)$ : the first group is greedy, so the last
\* possible " b/" is the separator
file_header_pattern(s) ==
    IF startswith(s, "diff --git a/") /\ FileHeaderSplits(s) # {}
    THEN LET k == SetMax(FileHeaderSplits(s))
         IN  Some([old_path |-> Sub(s, 14, k - 1),
                   new_path |-> Sub(s, k + 3, Len(s))])
    ELSE None

\* (\d+)(?:,(\d+))? read at position k: None, or the number, the optional
\* count and the position after them
NumberAndCount(s, k) ==
    LET e1 == DigitsEnd(s, k)
        e2 == DigitsEnd(s, e1 + 2)
    IN  IF e1 < k THEN None
        ELSE IF CharAt(s, e1 + 1) = "," /\ e2 >= e1 + 2
             THEN Some([start |-> int(s, k, e1),
                        count |-> Some(int(s, e1 + 2, e2)),
                        next  |-> e2 + 1])
             ELSE Some([start |-> int(s, k, e1), count |-> None, next |-> e1 + 1])

\* ^@@ -(\d+)(?:,(\d+))? \+(\d+)(?:,(\d+))? @@(.*)$
hunk_header_pattern(s) ==
    IF ~startswith(s, "@@ -") THEN None
    ELSE LET old == NumberAndCount(s, 5)
         IN  IF old = None \/ Sub(s, old[1].next, old[1].next + 1) # " +"
             THEN None
             ELSE LET new == NumberAndCount(s, old[1].next + 2)
                  IN  IF new = None
                         \/ Sub(s, new[1].next, new[1].next + 2) # " @@"
                      THEN None
                      ELSE Some([g1 |-> old[1].start, g2 |-> old[1].count,
                                 g3 |-> new[1].start, g4 |-> new[1].count,
                                 g5 |-> Slice(s, new[1].next + 2)])

\* ^new file mode \d+$
new_file_mode_pattern(s) == PrefixThenDigits(s, "new file mode ")

\* ^deleted file mode \d+$
deleted_file_mode_pattern(s) == PrefixThenDigits(s, "deleted file mode ")

\* ^rename from (.+)$
rename_from_pattern(s) == PrefixThenAny(s, "rename from ")

\* ^rename to (.+)$
rename_to_pattern(s) == PrefixThenAny(s, "rename to ")

---------------------------------------------------------------------------
(* The records of the parser (ChangedLine, DiffHunk, FileDiff).  The       *)
(* language of a FileDiff, a function of its new path alone, is left out.  *)

ChangedLine(number, text, kind, original) ==
    [line_number |-> number, content |-> text, change_type |-> kind,
     original_line_number |-> original]

DiffHunk_BothOrNone(m) ==
    [old_start |-> m.g1,
     old_count |-> IF m.g2 # None /\ m.g4 # None THEN m.g2[1] ELSE 1,
     new_start |-> m.g3,
     new_count |-> IF m.g2 # None /\ m.g4 # None THEN m.g4[1] ELSE 1,
     header    |-> strip(m.g5),
     lines     |-> <<>>]

DiffHunk(m) ==
    [old_start |-> m.g1,
     old_count |-> IF m.g2 # None THEN m.g2[1] ELSE 1,
     new_start |-> m.g3,
     new_count |-> IF m.g4 # None THEN m.g4[1] ELSE 1,
     header    |-> strip(m.g5),
     lines     |-> <<>>]

FileDiff(m) ==
    [file_path |-> m.new_path, old_path |-> m.old_path, new_path |-> m.new_path,
     is_new_file |-> FALSE, is_deleted_file |-> FALSE, is_renamed |-> FALSE,
     hunks |-> <<>>, additions |-> 0, deletions |-> 0]

\* len([l for l in hunk.lines if l.change_type in kinds])
CountKinds(hunk, kinds) ==
    Cardinality({k \in DOMAIN hunk.lines : hunk.lines[k].change_type \in kinds})

---------------------------------------------------------------------------
(* One iteration of the scan, on the locals of parse: st.file_diffs,       *)
(* st.current_file, st.current_hunk; st.exc names the exception a step     *)
(* raised ("" when none).  An attribute access on None is an               *)
(* AttributeError.                                                         *)

Raise(st, e) == [st EXCEPT !.exc = e]

\* current_file.hunks.append(current_hunk)
AppendHunk(st) ==
    IF st.current_file = None THEN Raise(st, "AttributeError")
    ELSE [st EXCEPT !.current_file =
             Some([st.current_file[1] EXCEPT
                      !.hunks = Append(@, st.current_hunk[1])])]

\* file_diffs.append(current_file)
AppendFile(st) ==
    [st EXCEPT !.file_diffs = Append(@, st.current_file[1])]

\* SaveOpen without the save of the open hunk
SaveOpen_DropHunk(st) ==
    IF st.current_file # None THEN AppendFile(st) ELSE st

\* the save of the open hunk and the open file, at a file header and at
\* the end of the input
SaveOpen(st) ==
    LET a == IF st.current_file # None /\ st.current_hunk # None
             THEN AppendHunk(st) ELSE st
    IN  IF a.current_file # None THEN AppendFile(a) ELSE a

\* a file header that repeats the paths of the open file merged into it
OpenFile_Merge(st, m) ==
    IF /\ st.current_file # None
       /\ st.current_file[1].old_path = m.old_path
       /\ st.current_file[1].new_path = m.new_path
    THEN st
    ELSE [SaveOpen(st) EXCEPT !.current_file = Some(FileDiff(m)),
                              !.current_hunk = None]

\* a file header that keeps the open hunk for the next file
OpenFile_KeepHunk(st, m) ==
    [SaveOpen_DropHunk(st) EXCEPT !.current_file = Some(FileDiff(m))]

\* a file header
OpenFile(st, m) ==
    [SaveOpen(st) EXCEPT !.current_file = Some(FileDiff(m)),
                         !.current_hunk = None]

\* current_file.<field> = value
SetFileField(st, field, value) ==
    IF st.current_file = None THEN Raise(st, "AttributeError")
    ELSE [st EXCEPT !.current_file =
             Some([st.current_file[1] EXCEPT ![field] = value])]

\* NewFileMode that also clears the other marker
NewFileMode_Exclusive(st) ==
    SetFileField(SetFileField(st, "is_new_file", TRUE), "is_deleted_file", FALSE)

NewFileMode(st) == SetFileField(st, "is_new_file", TRUE)

DeletedFileMode(st) == SetFileField(st, "is_deleted_file", TRUE)

RenameFrom(st, path) ==
    SetFileField(SetFileField(st, "old_path", path), "is_renamed", TRUE)

RenameTo(st, path) ==
    SetFileField(SetFileField(st, "new_path", path), "file_path", path)

\* a hunk header
OpenHunk(st, m) ==
    LET a == IF st.current_hunk # None THEN AppendHunk(st) ELSE st
    IN  IF a.exc # "" THEN a ELSE [a EXCEPT !.current_hunk = Some(DiffHunk(m))]

\* AppendLine with the line put in front of the hunk's lines
AppendLine_Prepend(st, changed_line, total) ==
    LET file == st.current_file[1]
        hunk == st.current_hunk[1]
    IN  [st EXCEPT
           !.current_hunk =
               Some([hunk EXCEPT !.lines = <<changed_line>> \o @]),
           !.current_file =
               Some(IF total = "" THEN file
                    ELSE [file EXCEPT ![total] = @ + 1])]

\* current_hunk.lines.append(changed_line), then the file's running total
AppendLine(st, changed_line, total) ==
    LET file == st.current_file[1]
        hunk == st.current_hunk[1]
    IN  [st EXCEPT
           !.current_hunk = Some([hunk EXCEPT !.lines = Append(@, changed_line)]),
           !.current_file =
               Some(IF total = "" THEN file
                    ELSE [file EXCEPT ![total] = @ + 1])]

\* NewLineNum counting the additions alone
NewLineNum_AdditionsOnly(hunk) == hunk.new_start + CountKinds(hunk, {"addition"})

\* the number of the next line on the new side of the open hunk
NewLineNum(hunk) == hunk.new_start + CountKinds(hunk, {"addition", "context"})

\* the number of the next line on the old side of the open hunk
OldLineNum(hunk) == hunk.old_start + CountKinds(hunk, {"deletion", "context"})

\* ContentLine taking every line that starts with "+" for an addition
ContentLine_AnyPlus(st, line, not_last) ==
    LET hunk == st.current_hunk[1]
    IN  IF startswith(line, "+")
        THEN AppendLine(st, ChangedLine(NewLineNum(hunk), Slice(line, 1),
                                        "addition", None), "additions")
        ELSE IF startswith(line, "-") /\ ~startswith(line, "---")
        THEN AppendLine(st, ChangedLine(OldLineNum(hunk), Slice(line, 1),
                                        "deletion", Some(OldLineNum(hunk))),
                        "deletions")
        ELSE IF startswith(line, " ") \/ (line = "" /\ not_last)
        THEN AppendLine(st, ChangedLine(NewLineNum(hunk),
                                        IF startswith(line, " ")
                                        THEN Slice(line, 1) ELSE line,
                                        "context", Some(OldLineNum(hunk))),
                        "")
        ELSE st

\* a content line while a hunk is open
ContentLine(st, line, not_last) ==
    IF st.current_hunk = None \/ st.current_file = None
    THEN Raise(st, "AttributeError")
    ELSE LET hunk == st.current_hunk[1]
         IN  IF startswith(line, "+") /\ ~startswith(line, "+++")
             THEN AppendLine(st, ChangedLine(NewLineNum(hunk), Slice(line, 1),
                                             "addition", None), "additions")
             ELSE IF startswith(line, "-") /\ ~startswith(line, "---")
             THEN AppendLine(st, ChangedLine(OldLineNum(hunk), Slice(line, 1),
                                             "deletion", Some(OldLineNum(hunk))),
                             "deletions")
             ELSE IF startswith(line, " ") \/ (line = "" /\ not_last)
             THEN AppendLine(st, ChangedLine(NewLineNum(hunk),
                                             IF startswith(line, " ")
                                             THEN Slice(line, 1) ELSE line,
                                             "context", Some(OldLineNum(hunk))),
                             "")
             ELSE st

\* "if current_file:" before the metadata patterns
MetadataGuard(st) == st.current_file # None

\* HunkGuard without its test of the file
HunkGuard_Always(st) == TRUE

\* "if hunk_match and current_file:"
HunkGuard(st) == st.current_file # None

\* ContentGuard without its test of the hunk
ContentGuard_FileOnly(st) == st.current_file # None

\* "if current_hunk is not None and current_file:"
ContentGuard(st) == st.current_hunk # None /\ st.current_file # None

\* the body of the while loop for one line; not_last is i < len(lines) - 1
ScanLine(st, line, not_last) ==
    LET file_match == file_header_pattern(line)
        hunk_match == hunk_header_pattern(line)
    IN  IF file_match # None THEN OpenFile(st, file_match[1])
        ELSE IF MetadataGuard(st) /\ new_file_mode_pattern(line)
        THEN NewFileMode(st)
        ELSE IF MetadataGuard(st) /\ deleted_file_mode_pattern(line)
        THEN DeletedFileMode(st)
        ELSE IF MetadataGuard(st) /\ rename_from_pattern(line) # None
        THEN RenameFrom(st, rename_from_pattern(line)[1])
        ELSE IF MetadataGuard(st) /\ rename_to_pattern(line) # None
        THEN RenameTo(st, rename_to_pattern(line)[1])
        ELSE IF hunk_match # None /\ HunkGuard(st) THEN OpenHunk(st, hunk_match[1])
        ELSE IF ContentGuard(st) THEN ContentLine(st, line, not_last)
        ELSE st

\* the locals of parse before the loop
ParseLocals == [file_diffs |-> <<>>, current_file |-> None,
                current_hunk |-> None, exc |-> ""]

\* "if not diff_text or not diff_text.strip()": the text is empty or all of
\* its lines are whitespace
IsBlankText(ls) == \A k \in DOMAIN ls : strip(ls[k]) = ""

\* the while loop from line k (1-based) on, then the final save
RECURSIVE ParseLoop(_, _, _)
ParseLoop(st, ls, k) ==
    IF st.exc # "" THEN st
    ELSE IF k > Len(ls) THEN SaveOpen(st)
    ELSE ParseLoop(ScanLine(st, ls[k], k < Len(ls)), ls, k + 1)

\* DiffParser.parse on the text whose lines are ls: the locals at its end
parse(ls) ==
    IF IsBlankText(ls) THEN ParseLocals ELSE ParseLoop(ParseLocals, ls, 1)

---------------------------------------------------------------------------
(* DiffParser.parse as a process: the call, one step per line, the return. *)
(* pc is "start" at the call, "loop" in the while loop, "returned" after   *)
(* the return and "raised" when an exception left the function.            *)

\* the locals as one record, for the operators above
Locals == [file_diffs |-> file_diffs, current_file |-> current_file,
           current_hunk |-> current_hunk, exc |-> ""]

\* lines 125-133: the early return for a blank text, else the locals
ParseBegin ==
    /\ pc = "start"
    /\ pc' = IF IsBlankText(lines) THEN "returned" ELSE "loop"
    /\ i' = 0
    /\ file_diffs' = <<>>
    /\ current_file' = None
    /\ current_hunk' = None
    /\ UNCHANGED <<calls, hanging, lines, review_vars, pr_vars>>

\* lines 134-256: one iteration of the while loop
ParseLine ==
    /\ pc = "loop"
    /\ i < Len(lines)
    /\ LET st == ScanLine(Locals, lines[i + 1], i < Len(lines) - 1)
       IN  /\ file_diffs' = st.file_diffs
           /\ current_file' = st.current_file
           /\ current_hunk' = st.current_hunk
           /\ pc' = IF st.exc # "" THEN "raised" ELSE "loop"
           /\ i' = IF st.exc # "" THEN i ELSE i + 1
    /\ UNCHANGED <<calls, hanging, lines, review_vars, pr_vars>>

\* lines 258-264: the save of the last hunk and file, and the return
ParseEnd ==
    /\ pc = "loop"
    /\ i >= Len(lines)
    /\ LET st == SaveOpen(Locals)
       IN  /\ file_diffs' = st.file_diffs
           /\ current_file' = st.current_file
           /\ current_hunk' = st.current_hunk
           /\ pc' = IF st.exc # "" THEN "raised" ELSE "returned"
    /\ UNCHANGED <<calls, hanging, lines, i, review_vars, pr_vars>>

\* parse has not been called
ParserIdle ==
    /\ i = 0
    /\ file_diffs = <<>>
    /\ current_file = None
    /\ current_hunk = None
    /\ pc = "start"

\* review_github_pr has not been called on the orchestrator, which has the
\* provider client (None when it was built without one)
PRIdle(client) ==
    /\ github_client = client
    /\ post_comments = FALSE
    /\ gpc = "idle"
    /\ provider_calls = <<>>
    /\ pr_info = None
    /\ review_result = None
    /\ pr_error = ""

\* no call of review_diff is followed apart from the others
CallsIdle == calls = <<>>

\* every invocation returns or raises
NoneHangs == hanging = {}

\* an orchestrator with the agents a, before any call of review_diff
ReviewIdle(a) ==
    /\ agents = a
    /\ parallel = FALSE
    /\ file_idx = 0
    /\ code_context = None
    /\ all_findings = <<>>
    /\ agent_results = <<>>
    /\ futures = <<>>
    /\ agent_idx = 0
    /\ result = None
    /\ rpc = "idle"
    /\ llm = <<>>
    /\ invoked = EmptyBag
    /\ collected = <<>>
    /\ previous = None

\* the texts of at most n lines over the lines of L; a text has at least
\* one line, since "".split('\n') is ['']
Texts(L, n) == UNION {[1..k -> L] : k \in 1..n}

MaxLines == 5

\* the lines of hunks: a file header, two hunk headers, an addition, a
\* deletion, a context line and an empty line
HunkLines ==
    {"diff --git a/a.py b/a.py", "@@ -3,2 +5,0 @@ f", "@@ -1 +1 @@",
     "+x", "-y", " z", ""}

InitParse ==
    /\ lines \in Texts(HunkLines, MaxLines)
    /\ ParserIdle
    /\ ReviewIdle(<<>>)
    /\ CallsIdle
    /\ NoneHangs
    /\ PRIdle(None)

NextParse == ParseBegin \/ ParseLine \/ ParseEnd

SpecParse == InitParse /\ [][NextParse]_vars

\* the lines of any shape: well-formed and malformed file headers, hunk
\* headers and metadata lines, content lines, "+++" and "---" lines, blank
\* lines and the "\ No newline" marker
AnyLines ==
    {"diff --git a/a.py b/a.py", "diff --git a/a.py", "@@ -1 +1 @@", "@@ -1 +1",
     "+x", "-y", " z", "", " ", "+++ b/a.py", "--- a/a.py",
     "\\ No newline at end of file", "new file mode 100644", "new file mode",
     "deleted file mode 100644", "rename from a.py", "rename to b.py"}

MaxAnyLines == 3

InitParseAny ==
    /\ lines \in Texts(AnyLines, MaxAnyLines)
    /\ ParserIdle
    /\ ReviewIdle(<<>>)
    /\ CallsIdle
    /\ NoneHangs
    /\ PRIdle(None)

SpecParseAny == InitParseAny /\ [][NextParse]_vars

\* the lines of the texts parsed for the file headers: a header that
\* keeps the path, one that changes it, and the lines of a hunk
FileLines ==
    {"diff --git a/a.py b/a.py", "diff --git a/a.py b/b.py", "@@ -1 +1 @@",
     "+x", "-y"}

MaxFileLines == 5

InitParseFiles ==
    /\ lines \in Texts(FileLines, MaxFileLines)
    /\ ParserIdle
    /\ ReviewIdle(<<>>)
    /\ CallsIdle
    /\ NoneHangs
    /\ PRIdle(None)

SpecParseFiles == InitParseFiles /\ [][NextParse]_vars

(***************************************************************************)
(* The agents (app/agents/*.py) and the language model behind them.  What  *)
(* the model answers is not the program's to decide: an answer is either a *)
(* failure of generate_content, with the message of its exception, or a    *)
(* JSON document with a list of findings, each a dict that may lack the    *)
(* "severity" key.  A dict is a record; a missing key is a missing field.  *)
(***************************************************************************)

\* dict.get(key, default)
get(d, key, default) == IF key \in DOMAIN d THEN d[key] ELSE default

SecurityAgent == [name |-> "Security Agent", category |-> "security"]

PerformanceAgent == [name |-> "Performance Agent", category |-> "performance"]

CodeQualityAgent == [name |-> "Code Quality Agent", category |-> "code_quality"]

LogicAgent == [name |-> "Logic Agent", category |-> "logic"]

DocumentationAgent == [name |-> "Documentation Agent", category |-> "documentation"]

\* ReviewOrchestrator.__init__: the agents list, appended in this order,
\* each agent when its enable_ flag is set
__init__(enable) ==
    (IF enable.security THEN <<SecurityAgent>> ELSE <<>>)
    \o (IF enable.performance THEN <<PerformanceAgent>> ELSE <<>>)
    \o (IF enable.code_quality THEN <<CodeQualityAgent>> ELSE <<>>)
    \o (IF enable.logic THEN <<LogicAgent>> ELSE <<>>)
    \o (IF enable.documentation THEN <<DocumentationAgent>> ELSE <<>>)

\* generate without the wrapping of the message: the exception of
\* generate_content itself
generate_Unwrapped(answer) ==
    IF answer.ok
    THEN [raised |-> FALSE, value |-> answer.findings]
    ELSE [raised |-> TRUE, value |-> answer.message]

\* GeminiLLM.generate on the answer of the model: the text, or an Exception
\* whose message wraps the message of the failure
generate(answer) ==
    IF answer.ok
    THEN [raised |-> FALSE, value |-> answer.findings]
    ELSE [raised |-> TRUE, value |-> "LLM generation failed: " \o answer.message]

\* BaseReviewAgent._parse_llm_response: one AgentFinding per finding of the
\* document; the file path, the category and the agent name are the
\* agent's, the severity defaults to "medium" and the title to
\* "Issue Found"
_parse_llm_response(response, file_path, category, name) ==
    [k \in DOMAIN response |->
        [file_path |-> file_path,
         category |-> category,
         severity |-> get(response[k], "severity", "medium"),
         title |-> get(response[k], "title", "Issue Found"),
         agent_name |-> name]]

\* <Agent>.analyze: generate, then _parse_llm_response; the exception of
\* generate propagates
analyze(agent, context, answer) ==
    LET response == generate(answer)
    IN  IF response.raised
        THEN response
        ELSE [raised |-> FALSE,
              value |-> _parse_llm_response(response.value, context.file_path,
                                            agent.category, agent.name)]

\* BaseReviewAgent.run: the findings as dicts and no error, or no findings
\* and the message of the exception
run(agent, context, answer) ==
    LET findings == analyze(agent, context, answer)
    IN  IF findings.raised
        THEN [agent_name |-> agent.name, findings |-> <<>>,
              error |-> Some(findings.value)]
        ELSE [agent_name |-> agent.name, findings |-> findings.value,
              error |-> None]

\* ReviewOrchestrator._run_agent: agent.run, which catches every Exception
\* itself, so the except branch of _run_agent is never taken
_run_agent(agent, context, answer) == run(agent, context, answer)

(***************************************************************************)
(* The pure parts of ReviewOrchestrator                                    *)
(***************************************************************************)

RECURSIVE Flatten(_)
\* the concatenation of a sequence of sequences
Flatten(ss) == IF ss = <<>> THEN <<>> ELSE Head(ss) \o Flatten(Tail(ss))

DigitChar(d) == CharAt("0123456789", d + 1)

RECURSIVE str(_)
\* str(n) of a natural number
str(n) == IF n < 10 THEN DigitChar(n) ELSE str(n \div 10) \o DigitChar(n % 10)

RECURSIVE join(_, _)
\* sep.join(ss)
join(sep, ss) ==
    IF ss = <<>> THEN ""
    ELSE IF Len(ss) = 1 THEN ss[1]
    ELSE ss[1] \o sep \o join(sep, Tail(ss))

RECURSIVE split(_, _)
\* s.split(sep) for a separator of one character
split(s, sep) ==
    LET at == {k \in 1..Len(s) : CharAt(s, k) = sep}
    IN  IF at = {} THEN <<s>>
        ELSE LET k == CHOOSE m \in at : \A n \in at : m <= n
             IN  <<Sub(s, 1, k - 1)>> \o split(Slice(s, k), sep)

\* Prefix with no marker for a context line
Prefix_NoContext(change_type) ==
    CASE change_type = "addition" -> "+"
      [] change_type = "deletion" -> "-"
      [] OTHER -> ""

\* the prefix _prepare_code_context writes for a change type
Prefix(change_type) ==
    CASE change_type = "addition" -> "+"
      [] change_type = "deletion" -> "-"
      [] change_type = "context" -> " "
      [] OTHER -> " "

\* the lines _prepare_code_context writes for one hunk
HunkDiffLines(hunk) ==
    <<"@@ -" \o str(hunk.old_start) \o "," \o str(hunk.old_count)
      \o " +" \o str(hunk.new_start) \o "," \o str(hunk.new_count)
      \o " @@ " \o hunk.header>>
    \o [k \in DOMAIN hunk.lines |->
          Prefix(hunk.lines[k].change_type) \o hunk.lines[k].content]

\* the added lines of one hunk, as _prepare_code_context lists them
HunkAdditions(hunk) ==
    LET added == SelectSeq(hunk.lines, LAMBDA l : l.change_type = "addition")
    IN  [k \in DOMAIN added |->
            [line_number |-> added[k].line_number, content |-> added[k].content]]

\* the list additions of _prepare_code_context
additions(f) ==
    Flatten([h \in DOMAIN f.hunks |-> HunkAdditions(f.hunks[h])])

\* the list diff_lines of _prepare_code_context
diff_lines(f) ==
    Flatten([h \in DOMAIN f.hunks |-> HunkDiffLines(f.hunks[h])])

\* ReviewOrchestrator._prepare_code_context (the language is left out, as
\* in FileDiff)
_prepare_code_context(f) ==
    [file_path |-> f.file_path,
     is_new_file |-> f.is_new_file,
     is_deleted_file |-> f.is_deleted_file,
     additions |-> additions(f),
     diff_content |-> join("\n", diff_lines(f))]

\* the dict severity_order of review_diff, as severity_order.get(s, 4)
severity_order(s) ==
    CASE s = "critical" -> 0
      [] s = "high" -> 1
      [] s = "medium" -> 2
      [] s = "low" -> 3
      [] s = "info" -> 4
      [] OTHER -> 4

\* the sort key of review_diff
SortKey(x) == severity_order(get(x, "severity", "info"))

\* the place of the element at n with the later of two equal keys first
Place_LaterFirst(findings, n) ==
    Cardinality({ m \in 1..Len(findings) :
                    \/ SortKey(findings[m]) < SortKey(findings[n])
                    \/ SortKey(findings[m]) = SortKey(findings[n]) /\ m >= n })

\* the place a stable sort gives the element at n: behind every element of
\* a smaller key and behind the earlier elements of its own key
Place(findings, n) ==
    Cardinality({ m \in 1..Len(findings) :
                    \/ SortKey(findings[m]) < SortKey(findings[n])
                    \/ SortKey(findings[m]) = SortKey(findings[n]) /\ m <= n })

\* list.sort(key=...): a stable sort
sort(findings) ==
    IF findings = <<>> THEN <<>>
    ELSE LET placed == {<<Place(findings, n), n>> : n \in 1..Len(findings)}
         IN  [place \in 1..Len(findings) |->
                 findings[(CHOOSE at \in placed : at[1] = place)[2]]]

\* the number of the findings whose key (default when missing) is value
CountOf(findings, key, default, value) ==
    Len(SelectSeq(findings, LAMBDA f : get(f, key, default) = value))

Severities == {"critical", "high", "medium", "low", "info"}

Categories == {"security", "performance", "logic", "code_quality", "documentation"}

\* the rating chain with two high findings already giving "needs_work"
overall_rating_TwoHigh(severity_counts) ==
    IF severity_counts["critical"] > 0 THEN "needs_work"
    ELSE IF severity_counts["high"] >= 2 THEN "needs_work"
    ELSE IF severity_counts["high"] > 0 \/ severity_counts["medium"] > 5
         THEN "changes_requested"
    ELSE IF severity_counts["medium"] > 0 THEN "comment"
    ELSE "approve"

\* the rating chain with the test for "comment" before the one for
\* "changes_requested"
overall_rating_CommentFirst(severity_counts) ==
    IF severity_counts["critical"] > 0 THEN "needs_work"
    ELSE IF severity_counts["high"] > 2 THEN "needs_work"
    ELSE IF severity_counts["medium"] > 0 THEN "comment"
    ELSE IF severity_counts["high"] > 0 \/ severity_counts["medium"] > 5
         THEN "changes_requested"
    ELSE "approve"

\* the rating chain of _generate_summary
overall_rating(severity_counts) ==
    IF severity_counts["critical"] > 0 THEN "needs_work"
    ELSE IF severity_counts["high"] > 2 THEN "needs_work"
    ELSE IF severity_counts["high"] > 0 \/ severity_counts["medium"] > 5
         THEN "changes_requested"
    ELSE IF severity_counts["medium"] > 0 THEN "comment"
    ELSE "approve"

\* the summary with only the findings of a known severity in the total
_generate_summary_KnownOnly(findings) ==
    LET severity_counts ==
            [s \in Severities |-> CountOf(findings, "severity", "info", s)]
        category_counts ==
            [c \in Categories |-> CountOf(findings, "category", "code_quality", c)]
    IN  [total_issues |->
            Len(SelectSeq(findings,
                          LAMBDA f : get(f, "severity", "info") \in Severities)),
         severity_counts |-> severity_counts,
         category_counts |-> category_counts,
         overall_rating |-> overall_rating(severity_counts)]

\* ReviewOrchestrator._generate_summary
_generate_summary(findings) ==
    LET severity_counts ==
            [s \in Severities |-> CountOf(findings, "severity", "info", s)]
        category_counts ==
            [c \in Categories |-> CountOf(findings, "category", "code_quality", c)]
    IN  [total_issues |-> Len(findings),
         severity_counts |-> severity_counts,
         category_counts |-> category_counts,
         overall_rating |-> overall_rating(severity_counts)]

RECURSIVE sum(_)
\* sum(...) of a list of numbers
sum(ns) == IF ns = <<>> THEN 0 ELSE Head(ns) + sum(Tail(ns))

\* the short result with the text counted as a file
NoChanges_OneFile ==
    [success |-> TRUE, message |-> "No changes to review",
     files_reviewed |-> 1, findings |-> <<>>]

\* the result review_diff returns when the parser found no file
NoChanges ==
    [success |-> TRUE, message |-> "No changes to review",
     files_reviewed |-> 0, findings |-> <<>>]

\* the result with only the dispatched files counted as reviewed and only
\* the files not deleted counted in the totals
ReviewResult_DispatchedOnly(files, sorted_findings, results) ==
    LET kept == SelectSeq(files, LAMBDA f : ~f.is_deleted_file)
    IN  [success |-> TRUE,
         files_reviewed |-> Len(SelectSeq(kept, LAMBDA f : additions(f) # <<>>)),
         total_additions |-> sum([k \in DOMAIN kept |-> kept[k].additions]),
         total_deletions |-> sum([k \in DOMAIN kept |-> kept[k].deletions]),
         findings |-> sorted_findings,
         agent_results |-> results,
         summary |-> _generate_summary(sorted_findings)]

\* the result review_diff returns after the loop over the files (the
\* execution time is left out)
ReviewResult(files, sorted_findings, results) ==
    [success |-> TRUE,
     files_reviewed |-> Len(SelectSeq(files, LAMBDA f : ~f.is_deleted_file)),
     total_additions |-> sum([k \in DOMAIN files |-> files[k].additions]),
     total_deletions |-> sum([k \in DOMAIN files |-> files[k].deletions]),
     findings |-> sorted_findings,
     agent_results |-> results,
     summary |-> _generate_summary(sorted_findings)]

(***************************************************************************)
(* ReviewOrchestrator.review_diff as a process.  rpc is "idle" before a    *)
(* call, "files" at the head of the loop over the files, "pool" inside the *)
(* with block of the executor, "seq" inside the sequential loop over the   *)
(* agents, "returned" after the return and "raised" when an exception left *)
(* the function.  The pool has one worker per agent, so every submitted    *)
(* call runs at once and they finish in any order; as_completed hands a    *)
(* finished future to the loop, in any order among the finished ones.      *)
(***************************************************************************)

\* what the language model may answer
LLMAnswers ==
    { [ok |-> FALSE, message |-> ""],
      [ok |-> TRUE, findings |-> <<>>],
      [ok |-> TRUE,
       findings |-> << [severity |-> "bogus", title |-> "u"],
                       [severity |-> "info", title |-> "i"],
                       [title |-> "m"],
                       [severity |-> "high", title |-> "h"] >>] }

\* the answers the model may give to an agent about a code context: the
\* answer it has given before, if it has been asked
Answers(agent, context) ==
    IF <<agent, context>> \in DOMAIN llm
    THEN {llm[<<agent, context>>]}
    ELSE LLMAnswers

\* the model has given the answer
Asked(agent, context, answer) ==
    IF <<agent, context>> \in DOMAIN llm
    THEN llm
    ELSE llm @@ (<<agent, context>> :> answer)

\* the invocation is given up after a while
Blocked_TimesOut(k, f) == FALSE

\* the invocation of the k-th agent on the f-th file never returns:
\* generate_content waits for an answer with no timeout
Blocked(k, f) == <<k, f>> \in hanging

\* one more invocation of the agent with the context
Invoke(agent, context) == invoked (+) SetToBag({<<agent, context>>})

\* the file the loop over the files is at
file_diff == file_diffs[file_idx]

\* the file has additions, deleted or not
Dispatched_IgnoreDeleted(f) == additions(f) # <<>>

\* the file is not skipped: it is not deleted and has additions
Dispatched(f) ==
    /\ ~f.is_deleted_file
    /\ additions(f) # <<>>

\* the set of the elements of a sequence
Range(s) == {s[k] : k \in DOMAIN s}

\* the elements of a sequence with their multiplicities
BagOfSeq(s) == [x \in Range(s) |-> Cardinality({k \in DOMAIN s : s[k] = x})]

\* the severities along a finding list
SeverityList(findings) == [k \in DOMAIN findings |-> findings[k].severity]

\* what is remembered of a call that is over: its mode, how it ended and,
\* of a returned result, the findings as a multiset, the severities along
\* the finding list and the result without its two lists
Outcome ==
    [parallel |-> parallel,
     rpc |-> rpc,
     findings |-> IF rpc = "returned" THEN BagOfSeq(result[1].findings) ELSE EmptyBag,
     severities |-> IF rpc = "returned" THEN SeverityList(result[1].findings) ELSE <<>>,
     rest |-> IF rpc = "returned"
              THEN [key \in DOMAIN result[1] \ {"findings", "agent_results"} |->
                        result[1][key]]
              ELSE None]

\* the call of review_diff(text, p) down to the loop over the files; a
\* second call on the same orchestrator remembers the outcome of the first
ReviewCall(text, p) ==
    /\ \/ rpc = "idle"
       \/ rpc \in {"returned", "raised"} /\ previous = None
    /\ previous' = IF rpc = "idle" THEN None ELSE Some(Outcome)
    /\ parallel' = p
    /\ LET parsed == parse(text)
       IN  /\ file_diffs' = parsed.file_diffs
           /\ IF parsed.exc # ""
              THEN rpc' = "raised" /\ result' = None
              ELSE IF parsed.file_diffs = <<>>
              THEN rpc' = "returned" /\ result' = Some(NoChanges)
              ELSE rpc' = "files" /\ result' = None
    /\ all_findings' = <<>>
    /\ agent_results' = <<>>
    /\ file_idx' = 1
    /\ agent_idx' = 0
    /\ futures' = <<>>
    /\ code_context' = None
    /\ invoked' = EmptyBag
    /\ collected' = <<>>
    /\ UNCHANGED <<calls, hanging, parser_vars, agents, llm>>

\* a caller calls review_diff on the text, in either mode
ReviewBegin ==
    /\ \E p \in BOOLEAN : ReviewCall(lines, p)
    /\ UNCHANGED <<calls, hanging, lines, pr_vars>>

\* if file_diff.is_deleted_file: continue
SkipDeleted ==
    /\ rpc = "files" /\ file_idx <= Len(file_diffs)
    /\ file_diff.is_deleted_file
    /\ file_idx' = file_idx + 1
    /\ UNCHANGED <<calls, hanging,
                   lines, file_diffs, parser_vars, pr_vars, agents, parallel,
                   code_context, all_findings, agent_results, futures,
                   agent_idx, result, rpc, llm, invoked, collected, previous>>

\* if not code_context["additions"]: continue
SkipNoAdditions ==
    /\ rpc = "files" /\ file_idx <= Len(file_diffs)
    /\ ~file_diff.is_deleted_file
    /\ code_context' = Some(_prepare_code_context(file_diff))
    /\ additions(file_diff) = <<>>
    /\ file_idx' = file_idx + 1
    /\ UNCHANGED <<calls, hanging,
                   lines, file_diffs, parser_vars, pr_vars, agents, parallel,
                   all_findings, agent_results, futures, agent_idx, result,
                   rpc, llm, invoked, collected, previous>>

\* with ThreadPoolExecutor(max_workers=len(self.agents)) and the submits:
\* one future per agent, all running
OpenPool ==
    /\ rpc = "files" /\ file_idx <= Len(file_diffs)
    /\ Dispatched(file_diff)
    /\ parallel
    /\ Len(agents) > 0
    /\ code_context' = Some(_prepare_code_context(file_diff))
    /\ futures' = [k \in DOMAIN agents |-> [state |-> "running", result |-> None]]
    /\ rpc' = "pool"
    /\ UNCHANGED <<calls, hanging,
                   lines, file_diffs, parser_vars, pr_vars, agents, parallel, file_idx,
                   all_findings, agent_results, agent_idx, result, llm,
                   invoked, collected, previous>>

\* ThreadPoolExecutor(max_workers=0) raises ValueError("max_workers must
\* be greater than 0"), which nothing in review_diff catches
PoolRaises ==
    /\ rpc = "files" /\ file_idx <= Len(file_diffs)
    /\ Dispatched(file_diff)
    /\ parallel
    /\ Len(agents) <= 0
    /\ code_context' = Some(_prepare_code_context(file_diff))
    /\ rpc' = "raised"
    /\ result' = None
    /\ UNCHANGED <<calls, hanging,
                   lines, file_diffs, parser_vars, pr_vars, agents, parallel, file_idx,
                   all_findings, agent_results, futures, agent_idx, llm,
                   invoked, collected, previous>>

\* WorkerFinish with the worker appending its result to the two lists
WorkerFinish_Appends ==
    /\ rpc = "pool"
    /\ \E k \in DOMAIN futures :
        /\ futures[k].state = "running"
        /\ ~Blocked(k, file_idx)
        /\ \E answer \in Answers(agents[k], code_context[1]) :
            LET r == _run_agent(agents[k], code_context[1], answer)
            IN  /\ futures' = [futures EXCEPT ![k] =
                       [state |-> "done", result |-> Some(r)]]
                /\ llm' = Asked(agents[k], code_context[1], answer)
                /\ agent_results' = Append(agent_results, r)
                /\ all_findings' = all_findings \o get(r, "findings", <<>>)
        /\ invoked' = Invoke(agents[k], code_context[1])
    /\ UNCHANGED <<calls, hanging,
                   lines, file_diffs, parser_vars, pr_vars, agents, parallel,
                   file_idx, code_context, agent_idx, result, rpc, collected,
                   previous>>

\* a worker of the pool runs self._run_agent(agent, code_context) to its end
WorkerFinish ==
    /\ rpc = "pool"
    /\ \E k \in DOMAIN futures :
        /\ futures[k].state = "running"
        /\ ~Blocked(k, file_idx)
        /\ \E answer \in Answers(agents[k], code_context[1]) :
            /\ futures' = [futures EXCEPT ![k] =
                  [state |-> "done",
                   result |-> Some(_run_agent(agents[k], code_context[1], answer))]]
            /\ llm' = Asked(agents[k], code_context[1], answer)
        /\ invoked' = Invoke(agents[k], code_context[1])
    /\ UNCHANGED <<calls, hanging,
                   lines, file_diffs, parser_vars, pr_vars, agents, parallel, file_idx,
                   code_context, all_findings, agent_results, agent_idx,
                   result, rpc, collected, previous>>

\* one iteration of the loop over as_completed(futures)
Collect ==
    /\ rpc = "pool"
    /\ \E k \in DOMAIN futures :
        /\ futures[k].state = "done"
        /\ agent_results' = Append(agent_results, futures[k].result[1])
        /\ all_findings' =
              all_findings \o get(futures[k].result[1], "findings", <<>>)
        /\ futures' = [futures EXCEPT ![k] = [state |-> "collected", result |-> None]]
    /\ UNCHANGED <<calls, hanging,
                   lines, file_diffs, parser_vars, pr_vars, agents, parallel, file_idx,
                   code_context, agent_idx, result, rpc, llm, invoked,
                   collected, previous>>

\* PoolClose that does not wait for the finished futures to be collected
PoolClose_Early ==
    /\ rpc = "pool"
    /\ \A k \in DOMAIN futures : futures[k].state # "running"
    /\ futures' = <<>>
    /\ file_idx' = file_idx + 1
    /\ rpc' = "files"
    /\ UNCHANGED <<calls, hanging,
                   lines, file_diffs, parser_vars, pr_vars, agents, parallel,
                   code_context, all_findings, agent_results, agent_idx,
                   result, llm, invoked, collected, previous>>

\* the end of the with block, after the last future: on to the next file
PoolClose ==
    /\ rpc = "pool"
    /\ \A k \in DOMAIN futures : futures[k].state = "collected"
    /\ futures' = <<>>
    /\ file_idx' = file_idx + 1
    /\ rpc' = "files"
    /\ UNCHANGED <<calls, hanging,
                   lines, file_diffs, parser_vars, pr_vars, agents, parallel,
                   code_context, all_findings, agent_results, agent_idx,
                   result, llm, invoked, collected, previous>>

\* else: into the loop for agent in self.agents
BeginSequential ==
    /\ rpc = "files" /\ file_idx <= Len(file_diffs)
    /\ Dispatched(file_diff)
    /\ ~parallel
    /\ code_context' = Some(_prepare_code_context(file_diff))
    /\ agent_idx' = 1
    /\ rpc' = "seq"
    /\ UNCHANGED <<calls, hanging,
                   lines, file_diffs, parser_vars, pr_vars, agents, parallel, file_idx,
                   all_findings, agent_results, futures, result, llm, invoked,
                   collected, previous>>

\* one iteration of the sequential loop
SeqRun ==
    /\ rpc = "seq" /\ agent_idx <= Len(agents)
    /\ ~Blocked(agent_idx, file_idx)
    /\ \E answer \in Answers(agents[agent_idx], code_context[1]) :
        LET r == _run_agent(agents[agent_idx], code_context[1], answer)
        IN  /\ agent_results' = Append(agent_results, r)
            /\ all_findings' = all_findings \o get(r, "findings", <<>>)
            /\ llm' = Asked(agents[agent_idx], code_context[1], answer)
    /\ invoked' = Invoke(agents[agent_idx], code_context[1])
    /\ agent_idx' = agent_idx + 1
    /\ UNCHANGED <<calls, hanging,
                   lines, file_diffs, parser_vars, pr_vars, agents, parallel, file_idx,
                   code_context, futures, result, rpc, collected, previous>>

\* the end of the sequential loop: on to the next file
SeqDone ==
    /\ rpc = "seq" /\ agent_idx > Len(agents)
    /\ file_idx' = file_idx + 1
    /\ rpc' = "files"
    /\ UNCHANGED <<calls, hanging,
                   lines, file_diffs, parser_vars, pr_vars, agents, parallel,
                   code_context, all_findings, agent_results, futures,
                   agent_idx, result, llm, invoked, collected, previous>>

\* after the loop over the files: the sort, the summary, the return
ReviewFinish ==
    /\ rpc = "files" /\ file_idx > Len(file_diffs)
    /\ collected' = all_findings
    /\ \E sorted_findings \in {sort(all_findings)} :
          /\ all_findings' = sorted_findings
          /\ result' = Some(ReviewResult(file_diffs, sorted_findings, agent_results))
    /\ rpc' = "returned"
    /\ UNCHANGED <<calls, hanging,
                   lines, file_diffs, parser_vars, pr_vars, agents, parallel, file_idx,
                   code_context, agent_results, futures, agent_idx, llm,
                   invoked, previous>>

\* the lines of the n-th file of a text: a file with additions in two
\* hunks, a file marked deleted that still carries an added line, or a
\* file with a removed line only
FileBlock(kind, n) ==
    LET header == "diff --git a/f" \o str(n) \o ".py b/f" \o str(n) \o ".py"
    IN  CASE kind = "added" ->
               <<header, "@@ -1 +1 @@", "+x", "@@ -5 +5 @@ f", "-y", "+w">>
          [] kind = "deleted" ->
               <<header, "deleted file mode 100644", "@@ -1 +1 @@", "+x">>
          [] kind = "removal" ->
               <<header, "@@ -1 +0,0 @@", "-y">>

BlockKinds == {"added", "deleted", "removal"}

MaxFiles == 2

\* texts without a file: the empty text, a text of white space on two
\* lines, and a hunk without a file header
NoFileTexts == {<<"">>, <<" ", "\t ">>, <<"@@ -1 +1 @@", "+x">>}

\* the reviewed texts: the texts without a file and the texts of at most
\* MaxFiles files
ReviewTexts ==
    NoFileTexts \cup
    UNION {{Flatten([k \in 1..n |-> FileBlock(kinds[k], k)]) :
                kinds \in [1..n -> BlockKinds]} : n \in 1..MaxFiles}

\* the enable_ flags of the orchestrators: no agent, one agent, two agents
EnableChoices ==
    { [security |-> FALSE, performance |-> FALSE, code_quality |-> FALSE,
       logic |-> FALSE, documentation |-> FALSE],
      [security |-> FALSE, performance |-> FALSE, code_quality |-> FALSE,
       logic |-> TRUE, documentation |-> FALSE],
      [security |-> TRUE, performance |-> FALSE, code_quality |-> FALSE,
       logic |-> FALSE, documentation |-> TRUE] }

Init ==
    /\ lines \in ReviewTexts
    /\ ParserIdle
    /\ \E enable \in EnableChoices : ReviewIdle(__init__(enable))
    /\ CallsIdle
    /\ NoneHangs
    /\ PRIdle(None)

Next ==
    \/ ReviewBegin
    \/ SkipDeleted
    \/ SkipNoAdditions
    \/ OpenPool
    \/ PoolRaises
    \/ WorkerFinish
    \/ Collect
    \/ PoolClose
    \/ BeginSequential
    \/ SeqRun
    \/ SeqDone
    \/ ReviewFinish

Spec == Init /\ [][Next]_vars

(***************************************************************************)
(* Calls of review_diff made at once on one orchestrator, by threads of    *)
(* the caller.  Every call has its own locals (diff_content, parallel,     *)
(* file_diffs, all_findings, agent_results, the place in the two loops);   *)
(* the calls share self.agents and the language model.  cpc is the place   *)
(* of a call: "idle", "files" at the head of the loop over the files,      *)
(* "agents" while the agents of a file run, "returned" or "raised".  One   *)
(* step of a call runs one agent of the file and collects its result; in   *)
(* concurrent mode the agents of a file are taken in any order.            *)
(***************************************************************************)

CallIds == {1, 2}

\* the texts the calls are made on
CallTexts ==
    { <<"">>,
      FileBlock("added", 1),
      FileBlock("deleted", 1) \o FileBlock("added", 2) }

\* the locals of a call that has not begun
IdleCall ==
    [cpc |-> "idle", text |-> <<>>, parallel |-> FALSE, file_diffs |-> <<>>,
     file_idx |-> 0, todo |-> {}, all_findings |-> <<>>,
     agent_results |-> <<>>, result |-> None]

\* every call appending to the lists of the first call
ListsOf_First(c) == 1

\* the call whose lists all_findings and agent_results a call appends to:
\* its own, the lists being locals made by the call
ListsOf(c) == c

\* the file a call is at
CallFile(c) == calls[c].file_diffs[calls[c].file_idx]

\* the others are left alone by a step of the calls
CallFrame ==
    UNCHANGED <<hanging, lines, file_diffs, parser_vars, pr_vars, agents, parallel,
                file_idx, code_context, all_findings, agent_results, futures,
                agent_idx, result, rpc, invoked, collected, previous>>

\* review_diff(text, p): the parse and the test of file_diffs
CallBegin(c) ==
    /\ calls[c].cpc = "idle"
    /\ \E text \in CallTexts, p \in BOOLEAN :
          LET parsed == parse(text)
          IN  calls' = [calls EXCEPT ![c] =
                 [IdleCall EXCEPT
                    !.text = text,
                    !.parallel = p,
                    !.file_diffs = parsed.file_diffs,
                    !.file_idx = 1,
                    !.cpc = IF parsed.exc # "" THEN "raised"
                            ELSE IF parsed.file_diffs = <<>> THEN "returned"
                            ELSE "files",
                    !.result = IF parsed.exc = "" /\ parsed.file_diffs = <<>>
                               THEN Some(NoChanges) ELSE None]]
    /\ UNCHANGED llm
    /\ CallFrame

\* the two continue statements of the loop over the files
CallSkip(c) ==
    /\ calls[c].cpc = "files" /\ calls[c].file_idx <= Len(calls[c].file_diffs)
    /\ ~Dispatched(CallFile(c))
    /\ calls' = [calls EXCEPT ![c].file_idx = @ + 1]
    /\ UNCHANGED llm
    /\ CallFrame

\* a file that is dispatched: the pool, which raises without agents, or
\* the sequential loop
CallDispatch(c) ==
    /\ calls[c].cpc = "files" /\ calls[c].file_idx <= Len(calls[c].file_diffs)
    /\ Dispatched(CallFile(c))
    /\ calls' = IF calls[c].parallel /\ Len(agents) <= 0
                THEN [calls EXCEPT ![c].cpc = "raised"]
                ELSE [calls EXCEPT ![c].cpc = "agents", ![c].todo = DOMAIN agents]
    /\ UNCHANGED llm
    /\ CallFrame

\* one agent of the file runs and its result is collected
CallRun(c) ==
    /\ calls[c].cpc = "agents"
    /\ \E k \in calls[c].todo :
          /\ calls[c].parallel \/ \A j \in calls[c].todo : k <= j
          /\ ~Blocked(k, calls[c].file_idx)
          /\ LET context == _prepare_code_context(CallFile(c))
             IN  \E answer \in Answers(agents[k], context) :
                    LET r == _run_agent(agents[k], context, answer)
                    IN  /\ calls' =
                           [calls EXCEPT
                              ![c].todo = @ \ {k},
                              ![ListsOf(c)].agent_results = Append(@, r),
                              ![ListsOf(c)].all_findings =
                                  @ \o get(r, "findings", <<>>)]
                        /\ llm' = Asked(agents[k], context, answer)
    /\ CallFrame

\* the agents of the file are done: on to the next file
CallNextFile(c) ==
    /\ calls[c].cpc = "agents" /\ calls[c].todo = {}
    /\ calls' = [calls EXCEPT ![c].cpc = "files", ![c].file_idx = @ + 1]
    /\ UNCHANGED llm
    /\ CallFrame

\* after the loop over the files: the sort, the summary, the return
CallFinish(c) ==
    /\ calls[c].cpc = "files" /\ calls[c].file_idx > Len(calls[c].file_diffs)
    /\ calls' = [calls EXCEPT
          ![c].all_findings = sort(@),
          ![c].result = Some(ReviewResult(calls[c].file_diffs,
                                          sort(calls[c].all_findings),
                                          calls[c].agent_results)),
          ![c].cpc = "returned"]
    /\ UNCHANGED llm
    /\ CallFrame

InitCalls ==
    /\ lines = <<"">>
    /\ ParserIdle
    /\ \E enable \in EnableChoices : ReviewIdle(__init__(enable))
    /\ NoneHangs
    /\ PRIdle(None)
    /\ calls = [c \in CallIds |-> IdleCall]

NextCalls ==
    \E c \in CallIds :
        \/ CallBegin(c)
        \/ CallSkip(c)
        \/ CallDispatch(c)
        \/ CallRun(c)
        \/ CallNextFile(c)
        \/ CallFinish(c)

SpecCalls == InitCalls /\ [][NextCalls]_vars

(***************************************************************************)
(* review_diff with invocations that may never return, under fair          *)
(* scheduling: a worker whose invocation can return does return, and the   *)
(* calling thread goes on whenever it can.  A caller need not call.        *)
(***************************************************************************)

\* the texts reviewed: two files, the second with additions
LiveTexts ==
    { <<"">> } \cup
    { FileBlock(kind, 1) \o FileBlock("added", 2) : kind \in BlockKinds }

\* the invocations that may hang: none, or one of one agent on one file
HangChoices ==
    { {} } \cup { {<<k, f>>} : k \in 1..2, f \in 1..2 }

InitLive ==
    /\ lines \in LiveTexts
    /\ ParserIdle
    /\ \E enable \in EnableChoices : ReviewIdle(__init__(enable))
    /\ CallsIdle
    /\ PRIdle(None)
    /\ hanging \in HangChoices

\* the steps of the thread that called review_diff
Coordinator ==
    \/ SkipDeleted
    \/ SkipNoAdditions
    \/ OpenPool
    \/ PoolRaises
    \/ Collect
    \/ PoolClose
    \/ BeginSequential
    \/ SeqRun
    \/ SeqDone
    \/ ReviewFinish

SpecLive ==
    InitLive /\ [][Next]_vars /\ WF_vars(WorkerFinish) /\ WF_vars(Coordinator)

(***************************************************************************)
(* ReviewOrchestrator._generate_summary applied to finding lists: any     *)
(* number of findings of each severity up to a bound, one of an unknown   *)
(* severity and one without the "severity" key among them.                *)
(***************************************************************************)

MaxCritical == 1

MaxHigh == 3

MaxMedium == 6

MaxOther == 1

\* n times x
Repeat(x, n) == [k \in 1..n |-> x]

\* a finding of the Logic Agent with the severity
LogicFinding(severity) ==
    [file_path |-> "f1.py", category |-> "logic", severity |-> severity,
     title |-> "t", agent_name |-> "Logic Agent"]

\* a finding without the "severity" key
BareFinding ==
    [file_path |-> "f1.py", category |-> "security", title |-> "t",
     agent_name |-> "Security Agent"]

\* a finding of a category outside the fixed five
StyleFinding ==
    [file_path |-> "f1.py", category |-> "style", severity |-> "low",
     title |-> "t", agent_name |-> "Style Agent"]

SummaryInputs ==
    { Repeat(LogicFinding("critical"), c) \o Repeat(LogicFinding("high"), h)
      \o Repeat(LogicFinding("medium"), m) \o Repeat(LogicFinding("low"), l)
      \o Repeat(LogicFinding("info"), n) \o Repeat(LogicFinding("bogus"), u)
      \o Repeat(BareFinding, b) \o Repeat(StyleFinding, s) :
          c \in 0..MaxCritical, h \in 0..MaxHigh, m \in 0..MaxMedium,
          l \in 0..MaxOther, n \in 0..MaxOther, u \in 0..MaxOther,
          b \in 0..MaxOther, s \in 0..MaxOther }

InitSummary ==
    /\ lines = <<"">>
    /\ ParserIdle
    /\ agents = <<>>
    /\ parallel = FALSE
    /\ file_idx = 0
    /\ code_context = None
    /\ all_findings \in SummaryInputs
    /\ agent_results = <<>>
    /\ futures = <<>>
    /\ agent_idx = 0
    /\ result = None
    /\ rpc = "summary"
    /\ llm = <<>>
    /\ invoked = EmptyBag
    /\ collected = <<>>
    /\ previous = None
    /\ CallsIdle
    /\ NoneHangs
    /\ PRIdle(None)

\* the call self._generate_summary(all_findings)
GenerateSummary ==
    /\ rpc = "summary"
    /\ result' = Some(_generate_summary(all_findings))
    /\ rpc' = "returned"
    /\ UNCHANGED <<calls, hanging,
                   lines, file_diffs, parser_vars, pr_vars, agents, parallel, file_idx,
                   code_context, all_findings, agent_results, futures,
                   agent_idx, llm, invoked, collected, previous>>

NextSummary == GenerateSummary

SpecSummary == InitSummary /\ [][NextSummary]_vars

(***************************************************************************)
(* The parser on the text of one file: a file header and the lines of its  *)
(* hunks.  The diff block _prepare_code_context writes for a file returned *)
(* is parsed again behind a file header.                                   *)
(***************************************************************************)

\* the lines after the file header
BlockLines ==
    {"@@ -3,2 +5,0 @@ f", "@@ -1 +1 @@", "+x", "-y", " z", "", " "}

MaxBlockLines == 4

InitParseBlock ==
    /\ lines \in { <<"diff --git a/a.py b/a.py">> \o t :
                     t \in {<<>>} \cup Texts(BlockLines, MaxBlockLines) }
    /\ ParserIdle
    /\ ReviewIdle(<<>>)
    /\ CallsIdle
    /\ NoneHangs
    /\ PRIdle(None)

SpecParseBlock == InitParseBlock /\ [][NextParse]_vars

\* the text made of a file header for f and the diff block of f, as
\* parse splits it
Reserialized(f) ==
    split("diff --git a/" \o f.file_path \o " b/" \o f.file_path
              \o "\n" \o _prepare_code_context(f).diff_content, "\n")

(***************************************************************************)
(* The parser on the hunk headers: a file header, one hunk header written  *)
(* from its numbers, and one added line.  A count is written or left out   *)
(* (None), on each side apart.                                             *)
(***************************************************************************)

MaxHunkStart == 2

MaxHunkCount == 10

\* a count as a header may carry it
WrittenCounts == {None} \cup {Some(n) : n \in 0..MaxHunkCount}

\* "<start>" or "<start>,<count>"
RangeText(start, count) ==
    str(start) \o (IF count = None THEN "" ELSE "," \o str(count[1]))

\* the hunk headers, each with what was written in it
HunkHeaderCases ==
    { [text |-> "@@ -" \o RangeText(os, oc) \o " +" \o RangeText(ns, nc)
                    \o " @@" \o tail,
       old_count |-> oc, new_count |-> nc] :
        os \in 1..MaxHunkStart, oc \in WrittenCounts,
        ns \in 1..MaxHunkStart, nc \in WrittenCounts, tail \in {"", " f"} }

InitParseHunk ==
    /\ lines \in { <<"diff --git a/a.py b/a.py", c.text, "+x">> :
                     c \in HunkHeaderCases }
    /\ ParserIdle
    /\ ReviewIdle(<<>>)
    /\ CallsIdle
    /\ NoneHangs
    /\ PRIdle(None)

SpecParseHunk == InitParseHunk /\ [][NextParse]_vars

(***************************************************************************)
(* The parser on the lines of one hunk: a file header, a hunk header and    *)
(* lines that are neither headers nor metadata lines.                       *)
(***************************************************************************)

\* the lines inside the hunk
ContentLines ==
    {"+x", "-y", " z", "", " ", "++x", "+++ b/a.py", "--- a/a.py",
     "\\ No newline at end of file", "x"}

MaxContentLines == 3

InitParseContent ==
    /\ lines \in { <<"diff --git a/a.py b/a.py", "@@ -1 +1 @@">> \o t :
                     t \in Texts(ContentLines, MaxContentLines) }
    /\ ParserIdle
    /\ ReviewIdle(<<>>)
    /\ CallsIdle
    /\ NoneHangs
    /\ PRIdle(None)

SpecParseContent == InitParseContent /\ [][NextParse]_vars

(***************************************************************************)
(* ReviewOrchestrator.review_github_pr as a process.  gpc is "idle" before *)
(* the call, "info" before get_pr_info, "diff" before get_pr_diff,         *)
(* "review" before review_diff, "reviewing" while review_diff runs, "post" *)
(* before create_pr_comment, "returned" after the return and "raised" when *)
(* an exception left the function.  A call of the provider (GitHubClient)  *)
(* returns a value or raises an Exception with a message; the text it      *)
(* returns for the diff is held as its lines.  An outcome of a provider    *)
(* call is a record: ok tells a return from a raise, value is what it      *)
(* returned and message what the exception says.                           *)
(***************************************************************************)

\* what get_pr_info may do
PRInfoOutcomes ==
    { [ok |-> TRUE, value |-> Some([number |-> 1, title |-> "t"]),
       message |-> ""],
      [ok |-> FALSE, value |-> None, message |-> "Failed to get PR #1: 404"] }

\* the diffs a pull request may have
PRTexts ==
    { <<"">>,
      FileBlock("added", 1),
      FileBlock("removal", 1),
      FileBlock("deleted", 1) \o FileBlock("added", 2) }

\* what get_pr_diff may do
PRDiffOutcomes ==
    { [ok |-> TRUE, value |-> text, message |-> ""] : text \in PRTexts }
    \cup { [ok |-> FALSE, value |-> <<>>,
            message |-> "Failed to get PR diff: 404 - Not Found"] }

\* what create_pr_comment may do with the body
PRCommentOutcomes(body) ==
    { [ok |-> TRUE, value |-> Some([id |-> 1, body |-> body]), message |-> ""],
      [ok |-> FALSE, value |-> None, message |-> "Failed to create comment: 403"] }

\* the record of one call of the provider
Call(name, outcome) ==
    [name |-> name, ok |-> outcome.ok, message |-> outcome.message]

\* d[key] = value on a dict
SetKey(d, key, value) ==
    [k \in DOMAIN d \cup {key} |-> IF k = key THEN value ELSE d[k]]

\* the head of the comment _format_review_comment writes (the emoji of the
\* title, the breakdown by severity and the findings that follow it are
\* left out)
_format_review_comment(r) ==
    join("\n", << "## Automated Code Review", "",
                  "**Files Reviewed:** " \o str(get(r, "files_reviewed", 0)),
                  "**Total Issues Found:** "
                      \o str(get(get(r, "summary", <<>>), "total_issues", 0)),
                  "" >>)

NotConfigured_Never(client) == FALSE

\* "if not self.github_client"
NotConfigured(client) == client = None

AfterFetch_Ignore(outcome, next) == next

\* where the call goes after a provider call that fetches: on, or out with
\* the exception of the provider
AfterFetch(outcome, next) == IF outcome.ok THEN next ELSE "raised"

\* the call review_github_pr(owner, repo_name, pr_number, post_comments)
\* and its test of the client
PRBegin ==
    /\ gpc = "idle"
    /\ \E p \in BOOLEAN : post_comments' = p
    /\ IF NotConfigured(github_client)
       THEN gpc' = "raised" /\ pr_error' = "GitHub client not configured"
       ELSE gpc' = "info" /\ pr_error' = ""
    /\ UNCHANGED <<calls, hanging,
                   lines, file_diffs, parser_vars, review_vars, github_client,
                   provider_calls, pr_info, review_result>>

\* pr_info = self.github_client.get_pr_info(...); on None the attribute
\* access raises AttributeError
PRGetInfo ==
    /\ gpc = "info"
    /\ IF github_client = None
       THEN /\ gpc' = "raised"
            /\ pr_error' = "'NoneType' object has no attribute 'get_pr_info'"
            /\ UNCHANGED <<calls, hanging, provider_calls, pr_info>>
       ELSE /\ \E outcome \in PRInfoOutcomes :
                  /\ provider_calls' =
                         Append(provider_calls, Call("get_pr_info", outcome))
                  /\ gpc' = AfterFetch(outcome, "diff")
                  /\ pr_info' = outcome.value
                  /\ pr_error' = IF gpc' = "raised" THEN outcome.message ELSE ""
    /\ UNCHANGED <<calls, hanging,
                   lines, file_diffs, parser_vars, review_vars, github_client,
                   post_comments, review_result>>

\* diff_content = self.github_client.get_pr_diff(...)
PRGetDiff ==
    /\ gpc = "diff"
    /\ \E outcome \in PRDiffOutcomes :
          /\ provider_calls' = Append(provider_calls, Call("get_pr_diff", outcome))
          /\ gpc' = AfterFetch(outcome, "review")
          /\ lines' = IF outcome.ok THEN outcome.value ELSE lines
          /\ pr_error' = IF gpc' = "raised" THEN outcome.message ELSE ""
    /\ UNCHANGED <<calls, hanging,
                   file_diffs, parser_vars, review_vars, github_client,
                   post_comments, pr_info, review_result>>

\* review_result = self.review_diff(diff_content, parallel=True): the call
PRReview ==
    /\ gpc = "review"
    /\ ReviewCall(lines, TRUE)
    /\ gpc' = "reviewing"
    /\ UNCHANGED <<calls, hanging,
                   lines, github_client, post_comments, provider_calls, pr_info,
                   review_result, pr_error>>

\* an exception of review_diff leaves review_github_pr as well
PRReviewRaised ==
    /\ gpc = "reviewing" /\ rpc = "raised"
    /\ gpc' = "raised"
    /\ pr_error' = "max_workers must be greater than 0"
    /\ UNCHANGED <<calls, hanging,
                   lines, file_diffs, parser_vars, review_vars, github_client,
                   post_comments, provider_calls, pr_info, review_result>>

\* review_diff has returned: review_result["pr_info"] = pr_info, and the
\* test "if post_comments and review_result['findings']"; without a
\* comment to post, the return
PRAfterReview ==
    /\ gpc = "reviewing" /\ rpc = "returned"
    /\ review_result' = Some(SetKey(result[1], "pr_info", pr_info[1]))
    /\ gpc' = IF post_comments /\ result[1].findings # <<>>
              THEN "post" ELSE "returned"
    /\ UNCHANGED <<calls, hanging,
                   lines, file_diffs, parser_vars, review_vars, github_client,
                   post_comments, provider_calls, pr_info, pr_error>>

\* the try block: the comment is formatted and posted; an exception of the
\* provider is caught and its message kept in the result; then the return
PRPost ==
    /\ gpc = "post"
    /\ \E outcome \in PRCommentOutcomes(_format_review_comment(review_result[1])) :
          /\ provider_calls' =
                 Append(provider_calls, Call("create_pr_comment", outcome))
          /\ review_result' =
              IF outcome.ok
              THEN Some(SetKey(review_result[1], "github_comment", outcome.value[1]))
              ELSE Some(SetKey(review_result[1], "github_comment_error", outcome.message))
    /\ gpc' = "returned"
    /\ UNCHANGED <<calls, hanging,
                   lines, file_diffs, parser_vars, review_vars, github_client,
                   post_comments, pr_info, pr_error>>

\* an orchestrator built with or without a provider client
InitPR ==
    /\ lines = <<"">>
    /\ ParserIdle
    /\ \E enable \in EnableChoices : ReviewIdle(__init__(enable))
    /\ CallsIdle
    /\ NoneHangs
    /\ \E client \in {None, Some("GitHubClient")} : PRIdle(client)

\* review_github_pr and the steps of the concurrent review_diff it calls
NextPR ==
    \/ PRBegin
    \/ PRGetInfo
    \/ PRGetDiff
    \/ PRReview
    \/ SkipDeleted
    \/ SkipNoAdditions
    \/ OpenPool
    \/ PoolRaises
    \/ WorkerFinish
    \/ Collect
    \/ PoolClose
    \/ ReviewFinish
    \/ PRReviewRaised
    \/ PRAfterReview
    \/ PRPost

SpecPR == InitPR /\ [][NextPR]_vars

---------------------------------------------------------------------------
(* Properties of the parser *)

ChangeTypes == {"addition", "deletion", "context"}

IsChangedLine(l) ==
    /\ DOMAIN l = {"line_number", "content", "change_type", "original_line_number"}
    /\ l.line_number \in Nat
    /\ l.change_type \in ChangeTypes
    /\ l.original_line_number = None \/ l.original_line_number[1] \in Nat

IsDiffHunk(h) ==
    /\ {h.old_start, h.old_count, h.new_start, h.new_count} \subseteq Nat
    /\ \A k \in DOMAIN h.lines : IsChangedLine(h.lines[k])

IsFileDiff(f) ==
    /\ {f.is_new_file, f.is_deleted_file, f.is_renamed} \subseteq BOOLEAN
    /\ {f.additions, f.deletions} \subseteq Nat
    /\ \A k \in DOMAIN f.hunks : IsDiffHunk(f.hunks[k])

\* a line of no shape the parser knows: no pattern matches it and it is
\* no addition, deletion or context line
NoShape(line) ==
    /\ file_header_pattern(line) = None
    /\ hunk_header_pattern(line) = None
    /\ ~new_file_mode_pattern(line)
    /\ ~deleted_file_mode_pattern(line)
    /\ rename_from_pattern(line) = None
    /\ rename_to_pattern(line) = None
    /\ ~(startswith(line, "+") /\ ~startswith(line, "+++"))
    /\ ~(startswith(line, "-") /\ ~startswith(line, "---"))
    /\ ~startswith(line, " ")
    /\ line # ""

\* no exception has left parse; in the loop the index is within the text,
\* so that a step or the return can be taken; what is returned is a
\* sequence of FileDiff records
ParseNeverRaises ==
    /\ pc \in {"start", "loop", "returned"}
    /\ pc = "loop" => i \in 0..Len(lines)
    /\ pc = "returned" =>
          \A k \in DOMAIN file_diffs : IsFileDiff(file_diffs[k])

NoShapeLineSkipped ==
    (pc = "loop" /\ i < Len(lines) /\ NoShape(lines[i + 1]))
        => /\ pc' = "loop"
           /\ i' = i + 1
           /\ UNCHANGED <<calls, hanging,
                          file_diffs, current_file, current_hunk>>

LinesOfKind(hs, kinds) ==
    UNION {{<<h, k>> : k \in {j \in DOMAIN hs[h].lines :
                                  hs[h].lines[j].change_type \in kinds}} :
              h \in DOMAIN hs}

\* the hunks of the open file, the open hunk included
OpenHunks ==
    IF current_file = None THEN <<>>
    ELSE current_file[1].hunks \o current_hunk

TotalsMatch(f, hs) ==
    /\ f.additions = Cardinality(LinesOfKind(hs, {"addition"}))
    /\ f.deletions = Cardinality(LinesOfKind(hs, {"deletion"}))

\* C7: after every step of the scan and at its end, the additions total of
\* every file (returned, or open with its open hunk) is the number of lines
\* of kind addition in its hunks, and its deletions total the number of
\* lines of kind deletion.
C7_TotalsMatchLines ==
    /\ \A k \in DOMAIN file_diffs : TotalsMatch(file_diffs[k], file_diffs[k].hunks)
    /\ (pc = "loop" /\ current_file # None)
          => TotalsMatch(current_file[1], OpenHunks)

\* a returned file with two hunks, an addition and a deletion
C7_Witness ==
    /\ pc = "returned"
    /\ \E k \in DOMAIN file_diffs :
          /\ Len(file_diffs[k].hunks) = 2
          /\ file_diffs[k].additions = 1
          /\ file_diffs[k].deletions = 1

\* the number of lines of hunk h before its k-th of a kind in kinds
Preceding(h, k, kinds) ==
    Cardinality({j \in 1..(k - 1) : h.lines[j].change_type \in kinds})

PositionRule(h, k) ==
    LET l == h.lines[k]
        new == h.new_start + Preceding(h, k, {"addition", "context"})
        old == h.old_start + Preceding(h, k, {"deletion", "context"})
    IN  CASE l.change_type = "addition" -> l.line_number = new
          [] l.change_type = "deletion" ->
                l.line_number = old /\ l.original_line_number = Some(old)
          [] l.change_type = "context" ->
                l.line_number = new /\ l.original_line_number = Some(old)

\* every hunk of the scan: of the returned files, of the open file, and the
\* open hunk
AllHunks ==
    UNION {{file_diffs[k].hunks[h] : h \in DOMAIN file_diffs[k].hunks} :
              k \in DOMAIN file_diffs}
      \cup {OpenHunks[h] : h \in DOMAIN OpenHunks}

\* C8: in every hunk, an addition's position is new-start plus the number
\* of addition-or-context lines before it in that hunk, a deletion's
\* position and original position are old-start plus the number of
\* deletion-or-context lines before it, and a context line has the first
\* as its position and the second as its original position; the counts are
\* over the lines of that hunk alone.
C8_PositionRule ==
    \A h \in AllHunks : \A k \in DOMAIN h.lines : PositionRule(h, k)

\* a returned hunk in which a context line follows an addition and a
\* deletion
C8_Witness ==
    /\ pc = "returned"
    /\ \E h \in AllHunks :
          /\ Len(h.lines) = 3
          /\ h.lines[3].change_type = "context"
          /\ {h.lines[1].change_type, h.lines[2].change_type}
                = {"addition", "deletion"}

\* C9 as stated: in every hunk the positions of all lines, of whatever
\* kind, are non-decreasing in source order.
C9_AllKindsMonotone ==
    \A h \in AllHunks : \A j, k \in DOMAIN h.lines :
        j < k => h.lines[j].line_number <= h.lines[k].line_number

\* C9 as amended: in every hunk the positions are non-decreasing in source
\* order on each side: the positions of the addition and context lines
\* (new side), and the original positions of the deletion and context
\* lines (old side).
C9_MonotonePerSide ==
    \A h \in AllHunks : \A j, k \in DOMAIN h.lines :
        j < k =>
          /\ {h.lines[j].change_type, h.lines[k].change_type}
                \subseteq {"addition", "context"}
               => h.lines[j].line_number <= h.lines[k].line_number
          /\ {h.lines[j].change_type, h.lines[k].change_type}
                \subseteq {"deletion", "context"}
               => h.lines[j].original_line_number[1]
                     <= h.lines[k].original_line_number[1]

\* a returned hunk with an addition between two context lines
C9_Witness ==
    /\ pc = "returned"
    /\ \E h \in AllHunks :
          /\ Len(h.lines) = 3
          /\ h.lines[1].change_type = "context"
          /\ h.lines[2].change_type = "addition"
          /\ h.lines[3].change_type = "context"

---------------------------------------------------------------------------
(* Properties of the orchestrator *)

\* a call of review_diff is over
Over == rpc \in {"returned", "raised"}

\* review_diff has returned the result of a full review
Reviewed == rpc = "returned" /\ "agent_results" \in DOMAIN result[1]

\* C10: review_diff returns a result rather than raising, for every diff
\* text and every configuration of enabled agents, the one with no agent
\* included, in concurrent and in sequential mode.
C10_ReviewNeverRaises == rpc # "raised"

\* the two calls, on the same text with the same agents answering alike,
\* ran in different modes
TwoModes == previous # None /\ Over /\ previous[1].parallel # parallel

\* C2: review_diff with parallel=True and with parallel=False return the
\* same merged findings as a multiset, the same summary and the same
\* sequence of severities in the sorted list, whatever order the workers
\* complete in.
C2_ModesAgree ==
    TwoModes =>
        /\ previous[1].rpc = "returned" /\ rpc = "returned"
        /\ previous[1].findings = BagOfSeq(result[1].findings)
        /\ previous[1].severities = SeverityList(result[1].findings)
        /\ get(previous[1].rest, "summary", None) = get(result[1], "summary", None)

\* the part of C2 that the code keeps: when both calls return, they agree
C2_ModesAgreeWhenBothReturn ==
    (TwoModes /\ previous[1].rpc = "returned" /\ rpc = "returned") =>
        /\ previous[1].findings = BagOfSeq(result[1].findings)
        /\ previous[1].severities = SeverityList(result[1].findings)
        /\ get(previous[1].rest, "summary", None) = get(result[1], "summary", None)

\* the invocations of the call whose answer was a failure
FailedInvocations == {key \in BagToSet(invoked) : ~llm[key].ok}

\* the answer, with a failure replaced by a document without findings
Quiet(answer) == IF answer.ok THEN answer ELSE [ok |-> TRUE, findings |-> <<>>]

RECURSIVE QuietFindings(_)
\* the findings the invocations contribute when every failing one returns
\* no findings instead
QuietFindings(keys) ==
    IF keys = {} THEN EmptyBag
    ELSE LET key == CHOOSE key \in keys : TRUE
         IN  BagOfSeq(_run_agent(key[1], key[2], Quiet(llm[key])).findings)
             (+) QuietFindings(keys \ {key})

\* an agent result that reports a failure: a non-empty error, no findings
ReportsFailure(r) == r.error # None /\ r.error[1] # "" /\ r.findings = <<>>

\* C3: a failing invocation yields an agent result with a non-empty error
\* and no findings; the review still returns a result; and the findings of
\* the other invocations are what they would be had the failing one
\* returned no findings.
C3_FailureIsContained ==
    /\ \A k \in DOMAIN agent_results :
          agent_results[k].error # None => ReportsFailure(agent_results[k])
    /\ FailedInvocations # {} => rpc # "raised"
    /\ Reviewed =>
          /\ \A a \in Range(agents) :
                Cardinality({k \in DOMAIN agent_results :
                                /\ agent_results[k].agent_name = a.name
                                /\ ReportsFailure(agent_results[k])})
                   = Cardinality({key \in FailedInvocations : key[1] = a})
          /\ BagOfSeq(collected) = QuietFindings(BagToSet(invoked))
          /\ BagOfSeq(result[1].findings) = QuietFindings(BagToSet(invoked))
          /\ result[1].agent_results = agent_results

\* a review returned with a reviewed file for which one agent failed and
\* another contributed findings
C3_Witness ==
    /\ Reviewed
    /\ result[1].files_reviewed > 0
    /\ \E failed \in FailedInvocations :
          \E other \in BagToSet(invoked) \ FailedInvocations :
              /\ other[2] = failed[2]
              /\ llm[other].findings # <<>>
    /\ result[1].findings # <<>>

\* the file has at least one added line
HasAddedLine(f) ==
    \E h \in DOMAIN f.hunks :
        \E k \in DOMAIN f.hunks[h].lines :
            f.hunks[h].lines[k].change_type = "addition"

\* the file is one the agents are to see
Eligible(f) == ~f.is_deleted_file /\ HasAddedLine(f)

Rank(f) ==
    IF "severity" \notin DOMAIN f THEN 4
    ELSE IF f.severity = "critical" THEN 0
    ELSE IF f.severity = "high" THEN 1
    ELSE IF f.severity = "medium" THEN 2
    ELSE IF f.severity = "low" THEN 3
    ELSE 4

\* the findings of rank r, in their order in the list
OfRank(findings, r) == SelectSeq(findings, LAMBDA f : Rank(f) = r)

\* C5: the returned finding list is the stable sort of the collected
\* findings by severity rank: ranks are non-decreasing along the list, and
\* the findings of each rank are the collected findings of that rank in
\* the order in which they were collected.
C5_StableSeveritySort ==
    Reviewed =>
        LET findings == result[1].findings
        IN  /\ \A j, k \in DOMAIN findings :
                  j < k => Rank(findings[j]) <= Rank(findings[k])
            /\ \A r \in 0..4 : OfRank(findings, r) = OfRank(collected, r)

\* a review returned whose collected findings were out of rank order, held
\* two different findings of one rank and a finding of unknown severity
C5_Witness ==
    /\ Reviewed
    /\ \E j, k \in DOMAIN collected :
          j < k /\ Rank(collected[j]) > Rank(collected[k])
    /\ \E j, k \in DOMAIN collected :
          j < k /\ Rank(collected[j]) = Rank(collected[k])
                /\ collected[j] # collected[k]
    /\ \E k \in DOMAIN collected : collected[k].severity \notin Severities

\* the number of the findings that carry the severity
SeverityCount(findings, severity) ==
    Cardinality({k \in DOMAIN findings :
                    /\ "severity" \in DOMAIN findings[k]
                    /\ findings[k].severity = severity})

\* the rating table, first matching row
RatingTable(critical, high, medium) ==
    CASE critical >= 1 -> "needs_work"
      [] critical < 1 /\ high > 2 -> "needs_work"
      [] critical < 1 /\ high <= 2 /\ (high >= 1 \/ medium > 5) -> "changes_requested"
      [] critical < 1 /\ high < 1 /\ medium <= 5 /\ medium >= 1 -> "comment"
      [] OTHER -> "approve"

\* C6: the overall rating is the first matching row of the table applied
\* to the severity counts; zero findings give approve, one medium gives
\* comment, one high gives changes_requested, three high give needs_work,
\* one critical gives needs_work whatever the other counts, six medium
\* without high or critical give changes_requested; low and info counts
\* never change the rating.
C6_RatingTable ==
    rpc = "returned" =>
        LET critical == SeverityCount(all_findings, "critical")
            high == SeverityCount(all_findings, "high")
            medium == SeverityCount(all_findings, "medium")
            rating == result[1].overall_rating
        IN  /\ rating = RatingTable(critical, high, medium)
            /\ all_findings = <<>> => rating = "approve"
            /\ (critical = 0 /\ high = 0 /\ medium = 1) => rating = "comment"
            /\ (critical = 0 /\ high = 1) => rating = "changes_requested"
            /\ (critical = 0 /\ high = 3) => rating = "needs_work"
            /\ critical = 1 => rating = "needs_work"
            /\ (critical = 0 /\ high = 0 /\ medium = 6) => rating = "changes_requested"
            /\ (critical = 0 /\ high = 0 /\ medium = 0) => rating = "approve"

\* the summary of six medium findings, a low and an info finding and no
\* high or critical one has been computed
C6_Witness ==
    /\ rpc = "returned"
    /\ SeverityCount(all_findings, "critical") = 0
    /\ SeverityCount(all_findings, "high") = 0
    /\ SeverityCount(all_findings, "medium") = 6
    /\ SeverityCount(all_findings, "low") = 1
    /\ SeverityCount(all_findings, "info") = 1
    /\ result[1].overall_rating = "changes_requested"

\* the keys of a full review result (the elapsed time is not modelled)
ResultKeys ==
    {"files_reviewed", "total_additions", "total_deletions", "findings",
     "agent_results", "summary"}

\* C11: every result returned by review_diff carries files-reviewed, total
\* additions, total deletions, the finding list, the agent results and a
\* summary with an overall rating; the result for a diff that parses to no
\* file has a summary with total 0 and rating approve.
C11_ResultCarriesAll ==
    rpc = "returned" =>
        /\ ResultKeys \subseteq DOMAIN result[1]
        /\ "overall_rating" \in DOMAIN result[1].summary
        /\ file_diffs = <<>> =>
              /\ result[1].summary.total_issues = 0
              /\ result[1].summary.overall_rating = "approve"

\* the part of C11 that the code keeps: the result of a diff that parses
\* to at least one file carries everything
C11_ResultOfFilesCarriesAll ==
    (rpc = "returned" /\ file_diffs # <<>>) =>
        /\ ResultKeys \subseteq DOMAIN result[1]
        /\ "overall_rating" \in DOMAIN result[1].summary

\* the sum of a per-file total over the files, last file first
Total(files, field) ==
    LET Upto[n \in 0..Len(files)] ==
            IF n = 0 THEN 0 ELSE Upto[n - 1] + files[n][field]
    IN  Upto[Len(files)]

\* C12: for a diff that parses to at least one file, files-reviewed is the
\* number of parsed files not marked deleted, and the total additions and
\* deletions are the sums of the per-file totals over all parsed files,
\* deleted files and files without added lines included; the values
\* depend neither on the answers of the agents nor on the mode.
C12_CountsOverAllFiles ==
    (rpc = "returned" /\ file_diffs # <<>>) =>
        /\ result[1].files_reviewed
              = Cardinality({n \in DOMAIN file_diffs : ~file_diffs[n].is_deleted_file})
        /\ result[1].total_additions = Total(file_diffs, "additions")
        /\ result[1].total_deletions = Total(file_diffs, "deletions")
        /\ (previous # None /\ previous[1].rpc = "returned") =>
              /\ previous[1].rest.files_reviewed = result[1].files_reviewed
              /\ previous[1].rest.total_additions = result[1].total_additions
              /\ previous[1].rest.total_deletions = result[1].total_deletions

\* a review returned for a deleted file that carries an added line and a
\* file with a removed line only: one file reviewed, none dispatched, both
\* counted in the totals
C12_Witness ==
    /\ Reviewed
    /\ \E n \in DOMAIN file_diffs :
          file_diffs[n].is_deleted_file /\ file_diffs[n].additions > 0
    /\ \E n \in DOMAIN file_diffs :
          /\ ~file_diffs[n].is_deleted_file
          /\ ~HasAddedLine(file_diffs[n])
          /\ file_diffs[n].deletions > 0
    /\ result[1].files_reviewed = 1
    /\ result[1].total_additions = 1
    /\ result[1].total_deletions = 1

\* the number of the findings that carry the category
CategoryCount(findings, category) ==
    Cardinality({k \in DOMAIN findings :
                    /\ "category" \in DOMAIN findings[k]
                    /\ findings[k].category = category})

\* every finding carries a severity and a category, as the dicts built by
\* BaseReviewAgent.run do
Keyed(findings) ==
    \A k \in DOMAIN findings :
        {"severity", "category"} \subseteq DOMAIN findings[k]

\* C13: in the summary the total is the length of the finding list; each
\* of the five severity counts is the number of findings with exactly that
\* severity and each category count the number of findings with exactly
\* that category; a finding of a severity or category outside the
\* enumerations is in the total and in no bucket, so the severity counts
\* sum to the total exactly when every finding has one of the five
\* severities, and to less otherwise.
C13_SummaryCounts ==
    (rpc = "returned" /\ Keyed(all_findings)) =>
        LET summary == result[1]
            counted == summary.severity_counts["critical"]
                       + summary.severity_counts["high"]
                       + summary.severity_counts["medium"]
                       + summary.severity_counts["low"]
                       + summary.severity_counts["info"]
        IN  /\ summary.total_issues = Len(all_findings)
            /\ DOMAIN summary.severity_counts = Severities
            /\ DOMAIN summary.category_counts = Categories
            /\ \A s \in Severities :
                  summary.severity_counts[s] = SeverityCount(all_findings, s)
            /\ \A c \in Categories :
                  summary.category_counts[c] = CategoryCount(all_findings, c)
            /\ counted <= summary.total_issues
            /\ counted = summary.total_issues
                  <=> \A k \in DOMAIN all_findings :
                          all_findings[k].severity \in Severities

\* the summary of a list with a finding of unknown severity and a finding
\* of unknown category has been computed
C13_Witness ==
    /\ rpc = "returned"
    /\ Keyed(all_findings)
    /\ \E k \in DOMAIN all_findings : all_findings[k].severity \notin Severities
    /\ \E k \in DOMAIN all_findings : all_findings[k].category \notin Categories
    /\ \E k \in DOMAIN all_findings : all_findings[k].severity = "medium"
    /\ result[1].total_issues = Len(all_findings)
    /\ result[1].total_issues > 3

\* the scan is at a line made of the prefix and a non-empty path, with a
\* file open
AtRenameLine(prefix) ==
    /\ pc = "loop" /\ i < Len(lines)
    /\ current_file # None
    /\ startswith(lines[i + 1], prefix)
    /\ Len(lines[i + 1]) > Len(prefix)

\* the path written on the line the scan is at, after the prefix
PathAfter(prefix) == Slice(lines[i + 1], Len(prefix))

\* the step on a "rename from <p>" line sets old-path to p and is-renamed
RenameFromStep ==
    AtRenameLine("rename from ") =>
        /\ current_file' # None
        /\ current_file'[1].old_path = PathAfter("rename from ")
        /\ current_file'[1].is_renamed

\* the step on a "rename to <p>" line sets path and new-path to p
RenameToPaths ==
    AtRenameLine("rename to ") =>
        /\ current_file' # None
        /\ current_file'[1].file_path = PathAfter("rename to ")
        /\ current_file'[1].new_path = PathAfter("rename to ")

\* the step on a "rename to <p>" line sets is-renamed
RenameToFlag ==
    AtRenameLine("rename to ") =>
        /\ current_file' # None
        /\ current_file'[1].is_renamed

\* a file header, "rename from a.py", "rename to b.py" yield one file with
\* old-path a.py, path b.py and is-renamed
RenamePair ==
    (pc' = "returned"
       /\ Len(lines) = 3
       /\ file_header_pattern(lines[1]) # None
       /\ lines[2] = "rename from a.py"
       /\ lines[3] = "rename to b.py") =>
        /\ Len(file_diffs') = 1
        /\ file_diffs'[1].old_path = "a.py"
        /\ file_diffs'[1].file_path = "b.py"
        /\ file_diffs'[1].is_renamed

\* C14: on an open file a "rename from <p>" line sets old-path to p and
\* is-renamed, and a "rename to <p>" line sets path and new-path to p and
\* is-renamed, each on its own; so a file header, "rename from a.py" and
\* "rename to b.py" yield one file with old-path a.py, path b.py and
\* is-renamed.
C14_RenameLines ==
    [][RenameFromStep /\ RenameToPaths /\ RenameToFlag /\ RenamePair]_vars

\* the part of C14 that the code keeps: all of it but the flag set by a
\* "rename to" line
C14_RenameLinesButToFlag ==
    [][RenameFromStep /\ RenameToPaths /\ RenamePair]_vars

\* the number of file-header lines among the first n lines of the text
HeaderLines(n) ==
    Cardinality({k \in 1..n : file_header_pattern(lines[k]) # None})

\* the open file with its open hunk, as it stands
Sealed ==
    IF current_hunk = None THEN current_file[1]
    ELSE [current_file[1] EXCEPT !.hunks = Append(@, current_hunk[1])]

\* the step on a file-header line seals the open file, with the hunks and
\* totals it has, at the end of the sequence and opens a new, empty file
\* with the paths of the header
HeaderStep ==
    (pc = "loop" /\ i < Len(lines) /\ file_header_pattern(lines[i + 1]) # None) =>
        /\ pc' = "loop" /\ i' = i + 1
        /\ file_diffs' = IF current_file = None THEN file_diffs
                         ELSE Append(file_diffs, Sealed)
        /\ current_hunk' = None
        /\ current_file' =
              Some([file_path |-> file_header_pattern(lines[i + 1])[1].new_path,
                    old_path |-> file_header_pattern(lines[i + 1])[1].old_path,
                    new_path |-> file_header_pattern(lines[i + 1])[1].new_path,
                    is_new_file |-> FALSE, is_deleted_file |-> FALSE,
                    is_renamed |-> FALSE, hunks |-> <<>>,
                    additions |-> 0, deletions |-> 0])

\* a file in the sequence is never changed or removed by a later step
SealedFilesKept ==
    (pc = "loop") =>
        /\ Len(file_diffs') >= Len(file_diffs)
        /\ SubSeq(file_diffs', 1, Len(file_diffs)) = file_diffs

\* one file per file-header line read so far, the open one included
OneFilePerHeader ==
    /\ pc = "loop" =>
          Len(file_diffs) + (IF current_file = None THEN 0 ELSE 1) = HeaderLines(i)
    /\ pc = "returned" => Len(file_diffs) = HeaderLines(Len(lines))

\* C15: every file-header line opens a new file, even when a file is open
\* and even when the header repeats the same paths: parse returns exactly
\* one file per file-header line, in order of appearance, and the file open
\* before a header is sealed with the hunks and totals it had.
C15_OneFilePerHeader ==
    [][HeaderStep /\ SealedFilesKept /\ OneFilePerHeader /\ OneFilePerHeader']_vars

\* a text whose second header repeats the paths of the first was parsed:
\* two files, the first with its hunk and its addition, the second empty
C15_Witness ==
    /\ pc = "returned"
    /\ Len(lines) = 4
    /\ HeaderLines(Len(lines)) = 2
    /\ lines[1] = lines[4]
    /\ Len(file_diffs) = 2
    /\ Len(file_diffs[1].hunks) = 1
    /\ file_diffs[1].additions = 1
    /\ file_diffs[2].hunks = <<>>

\* the text is empty or made of white space only
WhitespaceOnly(text) ==
    \A n \in DOMAIN text :
        \A k \in 1..Len(text[n]) : CharAt(text[n], k) \in {" ", "\t", "\r"}

\* C16: for an empty or whitespace-only diff parse returns the empty
\* sequence, and review_diff on a diff that parses to no file returns a
\* result with no findings and files-reviewed 0 without invoking any
\* agent, in both modes.
C16_NoFilesNoDispatch ==
    /\ (rpc # "idle" /\ WhitespaceOnly(lines)) =>
          file_diffs = <<>> /\ rpc # "raised"
    /\ (rpc # "idle" /\ file_diffs = <<>>) =>
          /\ rpc = "returned"
          /\ result[1].findings = <<>>
          /\ result[1].files_reviewed = 0
          /\ invoked = EmptyBag
          /\ DOMAIN llm = {}

\* an orchestrator with two agents has reviewed a text of white space in
\* one mode and then in the other
C16_Witness ==
    /\ rpc = "returned"
    /\ Len(lines) = 2 /\ WhitespaceOnly(lines)
    /\ Len(agents) = 2
    /\ previous # None
    /\ previous[1].rpc = "returned"
    /\ previous[1].parallel # parallel
    /\ result[1].files_reviewed = 0

(***************************************************************************)
(* Properties of review_github_pr.                                         *)
(***************************************************************************)

\* the calls of the provider that raised, by name
FailedCalls(names) ==
    { k \in DOMAIN provider_calls :
        ~provider_calls[k].ok /\ provider_calls[k].name \in names }

\* review_diff was never called: nothing parsed, no analyzer invoked
NothingReviewed ==
    /\ rpc = "idle"
    /\ file_diffs = <<>>
    /\ invoked = EmptyBag
    /\ agent_results = <<>>

\* C17: review_github_pr on an orchestrator without a provider client
\* raises the configuration error, and it does so before any call of the
\* provider, any parsing of a diff and any invocation of an agent.
C17_NoClientFailsFast ==
    (github_client = None /\ gpc # "idle")
        => /\ gpc = "raised"
           /\ pr_error = "GitHub client not configured"
           /\ provider_calls = <<>>
           /\ review_result = None
           /\ NothingReviewed

C17_Witness ==
    /\ github_client = None
    /\ agents # <<>>
    /\ gpc = "raised"

\* C18: when get_pr_info or get_pr_diff raises, review_github_pr raises
\* that exception and returns no result; no diff is parsed, no agent is
\* invoked and no comment is posted.
C18_FetchFailurePropagates ==
    \A k \in FailedCalls({"get_pr_info", "get_pr_diff"}) :
        /\ k = Len(provider_calls)
        /\ gpc = "raised"
        /\ pr_error = provider_calls[k].message
        /\ review_result = None
        /\ NothingReviewed
        /\ \A j \in DOMAIN provider_calls :
              provider_calls[j].name # "create_pr_comment"

C18_Witness ==
    /\ FailedCalls({"get_pr_diff"}) # {}
    /\ post_comments
    /\ agents # <<>>
    /\ pr_info # None

\* C19 (as the specification states it): when create_pr_comment raises,
\* review_github_pr raises that exception, as it does for a fetch, and
\* returns no result.
C19_PostFailurePropagates ==
    \A k \in FailedCalls({"create_pr_comment"}) :
        /\ gpc = "raised"
        /\ pr_error = provider_calls[k].message
        /\ review_result = None

\* what the code does: the exception of create_pr_comment is caught, its
\* message is stored under github_comment_error and the review returns
\* with success
C19_PostFailureIsRecorded ==
    \A k \in FailedCalls({"create_pr_comment"}) :
        /\ gpc = "returned"
        /\ pr_error = ""
        /\ review_result # None
        /\ review_result[1].success
        /\ review_result[1].github_comment_error = provider_calls[k].message
        /\ "github_comment" \notin DOMAIN review_result[1]

(***************************************************************************)
(* Properties of the hunk headers.                                         *)
(***************************************************************************)

\* the hunks the parser holds for the hunk header of the text: the open
\* one, those of the open file and those of the files returned
HeldHunks ==
    (IF current_hunk # None THEN {current_hunk[1]} ELSE {})
    \cup (IF current_file # None THEN Range(current_file[1].hunks) ELSE {})
    \cup UNION { Range(file_diffs[f].hunks) : f \in DOMAIN file_diffs }

\* the count a side gets: the written one, or 1
CountOfSide(written) == IF written = None THEN 1 ELSE written[1]

\* C20: a hunk header that leaves out the count of a side gives count 1 on
\* that side, whatever the other side has; one that leaves out both gives
\* old_count = new_count = 1; a written count, 0 included, is kept.
C20_HunkCounts ==
    \A c \in HunkHeaderCases :
        lines[2] = c.text =>
            /\ pc = "returned"
                  => Len(file_diffs) = 1 /\ Len(file_diffs[1].hunks) = 1
            /\ \A hunk \in HeldHunks :
                  /\ hunk.old_count = CountOfSide(c.old_count)
                  /\ hunk.new_count = CountOfSide(c.new_count)

C20_Witness ==
    /\ pc = "returned"
    /\ lines[2] = "@@ -2 +1,0 @@ f"
    /\ Len(file_diffs) = 1
    /\ Len(file_diffs[1].hunks) = 1
    /\ file_diffs[1].hunks[1].old_count = 1
    /\ file_diffs[1].hunks[1].new_count = 0

(***************************************************************************)
(* Properties of the metadata lines.                                       *)
(***************************************************************************)

\* the attributes of a FileDiff
FileFields ==
    {"file_path", "old_path", "new_path", "is_new_file", "is_deleted_file",
     "is_renamed", "hunks", "additions", "deletions"}

\* the scan is at the line text, with a file open
AtMetadataLine(text) ==
    /\ pc = "loop" /\ i < Len(lines)
    /\ current_file # None
    /\ lines[i + 1] = text

\* the step on the metadata line text goes to the next line, appends no
\* ChangedLine, closes no hunk, seals no file and leaves every attribute
\* of the open file outside listed as it was
MetadataFrame(text, listed) ==
    AtMetadataLine(text) =>
        /\ pc' = "loop" /\ i' = i + 1
        /\ file_diffs' = file_diffs
        /\ current_hunk' = current_hunk
        /\ current_file' # None
        /\ \A f \in FileFields \ listed : current_file'[1][f] = current_file[1][f]

\* the step on a metadata line sets the flag of the line
MetadataSets(text, flag) ==
    AtMetadataLine(text) => current_file' # None /\ current_file'[1][flag]

\* a file whose header is followed by both markers, in either order, has
\* both flags
BothMarkers ==
    (pc' = "returned"
       /\ Len(lines) = 3
       /\ lines[1] = "diff --git a/a.py b/a.py"
       /\ {lines[2], lines[3]} = {"new file mode 100644", "deleted file mode 100644"})
        => /\ Len(file_diffs') = 1
           /\ file_diffs'[1].is_new_file
           /\ file_diffs'[1].is_deleted_file

\* C21: a metadata line on an open file appends no line, closes no hunk
\* and changes only the attributes listed for it: "new file mode" sets
\* is_new_file and nothing else, "deleted file mode" sets is_deleted_file
\* and nothing else, the rename lines touch only the paths and is_renamed;
\* both flags are set when both markers appear.
C21_MetadataFrame ==
    [][/\ MetadataFrame("new file mode 100644", {"is_new_file"})
       /\ MetadataSets("new file mode 100644", "is_new_file")
       /\ MetadataFrame("deleted file mode 100644", {"is_deleted_file"})
       /\ MetadataSets("deleted file mode 100644", "is_deleted_file")
       /\ MetadataFrame("rename from a.py", {"old_path", "is_renamed"})
       /\ MetadataFrame("rename to b.py", {"new_path", "file_path", "is_renamed"})
       /\ BothMarkers]_vars

\* a file marked deleted and then new was returned with both flags
C21_Witness ==
    /\ pc = "returned"
    /\ lines = <<"diff --git a/a.py b/a.py", "deleted file mode 100644",
                 "new file mode 100644">>
    /\ Len(file_diffs) = 1
    /\ file_diffs[1].is_new_file /\ file_diffs[1].is_deleted_file
    /\ file_diffs[1].hunks = <<>>

(***************************************************************************)
(* Properties of the diff block of _prepare_code_context.                  *)
(***************************************************************************)

\* parse of the reserialized f returns one file with the hunks and the
\* totals of f
RoundTrip(f) ==
    LET again == parse(Reserialized(f))
    IN  /\ again.exc = ""
        /\ Len(again.file_diffs) = 1
        /\ again.file_diffs[1].hunks = f.hunks
        /\ again.file_diffs[1].additions = f.additions
        /\ again.file_diffs[1].deletions = f.deletions

\* C22: for every file parse returns, parsing a file header followed by
\* the diff block _prepare_code_context builds for it returns one file
\* with the same hunks (starts, counts, header, and the kind, content and
\* numbers of every line) and the same totals.
C22_RoundTrip ==
    pc = "returned" => \A f \in DOMAIN file_diffs : RoundTrip(file_diffs[f])

\* a file with two hunks, a defaulted count, an empty context line and an
\* addition was returned and parsed again
C22_Witness ==
    /\ pc = "returned"
    /\ lines = <<"diff --git a/a.py b/a.py", "@@ -1 +1 @@", "", "@@ -3,2 +5,0 @@ f",
                 "+x">>
    /\ Len(file_diffs) = 1
    /\ Len(file_diffs[1].hunks) = 2
    /\ file_diffs[1].hunks[1].lines[1].change_type = "context"
    /\ file_diffs[1].additions = 1
    /\ Len(Reserialized(file_diffs[1])) = 5
    /\ RoundTrip(file_diffs[1])

(***************************************************************************)
(* Properties of calls of review_diff made at once.                        *)
(***************************************************************************)

\* the results of the agents for the files of a text, file by file in
\* parse order and agent by agent in registration order, with the answers
\* the model gave
ResultsFor(files) ==
    Flatten([f \in DOMAIN files |->
        IF Dispatched(files[f])
        THEN [k \in DOMAIN agents |->
                 _run_agent(agents[k], _prepare_code_context(files[f]),
                            llm[<<agents[k], _prepare_code_context(files[f])>>])]
        ELSE <<>>])

\* the findings of a list of agent results, in the order of the list
FindingsOf(results) ==
    Flatten([k \in DOMAIN results |-> get(results[k], "findings", <<>>)])

\* a call that is over ended as its text, its mode, the agents and the
\* answers of the model say: it raised exactly when the mode is concurrent,
\* no agent is registered and a file is dispatched; else it returned the
\* result of the text alone, the order in which a concurrent call collects
\* its agents apart
Determined(c) ==
    LET call == calls[c]
        files == parse(call.text).file_diffs
        raises == /\ call.parallel /\ agents = <<>>
                  /\ \E f \in DOMAIN files : Dispatched(files[f])
    IN  /\ call.cpc = "raised" => raises
        /\ call.cpc = "returned" =>
              /\ ~raises
              /\ call.result # None
              /\ IF files = <<>> THEN call.result[1] = NoChanges
                 ELSE /\ call.result[1] =
                            ReviewResult(files, call.result[1].findings,
                                         call.result[1].agent_results)
                      /\ BagOfSeq(call.result[1].agent_results)
                            = BagOfSeq(ResultsFor(files))
                      /\ BagOfSeq(call.result[1].findings)
                            = BagOfSeq(FindingsOf(ResultsFor(files)))
                      /\ SeverityList(call.result[1].findings)
                            = SeverityList(sort(FindingsOf(ResultsFor(files))))
                      /\ ~call.parallel =>
                            /\ call.result[1].agent_results = ResultsFor(files)
                            /\ call.result[1].findings
                                  = sort(FindingsOf(ResultsFor(files)))

\* every call that is over is determined
AllDetermined == \A c \in CallIds : Determined(c)

\* C23: the result of a call of review_diff is determined by its text, its
\* mode and the answers its agents got, whatever other calls were made
\* before it or run at the same time on the same orchestrator, and no call
\* changes self.agents, members or order.
C23_Stateless == []AllDetermined /\ [][agents' = agents]_vars

\* a call began and returned findings while another call on the same text
\* was among the agents of its file, one result collected
C23_Witness ==
    /\ calls # <<>>
    /\ calls[1].cpc = "agents"
    /\ Len(calls[1].agent_results) = 1
    /\ calls[1].todo # {}
    /\ calls[2].cpc = "returned"
    /\ calls[2].text = calls[1].text
    /\ calls[2].result[1].findings # <<>>
    /\ Len(calls[2].result[1].agent_results) = 2

(***************************************************************************)
(* Properties of the collection of the results.                            *)
(***************************************************************************)

\* a worker finishes in the step
WorkerStep ==
    /\ rpc = "pool"
    /\ \E k \in DOMAIN futures :
          futures[k].state = "running" /\ futures'[k].state = "done"

\* the coordinating thread takes the result of the finished future k in
\* the step and appends it and its findings to the two lists
CollectStep(k) ==
    /\ futures[k].state = "done" /\ futures'[k].state = "collected"
    /\ agent_results' = Append(agent_results, futures[k].result[1])
    /\ all_findings' = all_findings \o get(futures[k].result[1], "findings", <<>>)

\* inside the pool no step of a worker touches the two lists, and the
\* lists change only as the coordinating thread collects one future
OnlyCoordinatorAppends ==
    /\ WorkerStep => all_findings' = all_findings /\ agent_results' = agent_results
    /\ (rpc = "pool" /\ <<all_findings, agent_results>>' # <<all_findings, agent_results>>)
          => \E k \in DOMAIN futures : CollectStep(k)

\* a concurrent review that returned has one agent result per dispatched
\* file and agent, and its finding list holds the findings of those
\* results, each as often as the results hold it
CollectedOnce ==
    (Reviewed /\ parallel) =>
        /\ Len(result[1].agent_results)
              = Len(agents) * Cardinality({f \in DOMAIN file_diffs :
                                              Dispatched(file_diffs[f])})
        /\ BagOfSeq(result[1].agent_results) = BagOfSeq(ResultsFor(file_diffs))
        /\ collected = FindingsOf(result[1].agent_results)
        /\ BagOfSeq(result[1].findings)
              = BagOfSeq(FindingsOf(result[1].agent_results))

\* C24: in concurrent mode only the coordinating thread appends to the
\* finding list and the agent-result list, never a worker; whatever order
\* the workers finish in, the returned agent-result list has exactly one
\* entry per dispatched file and agent, and the finding list has every
\* finding of every agent result exactly once.
C24_CoordinatorCollects == []CollectedOnce /\ [][OnlyCoordinatorAppends]_vars

\* a concurrent review of two files by two agents returned four results
\* and findings
C24_Witness ==
    /\ Reviewed /\ parallel
    /\ Len(agents) = 2
    /\ Len(result[1].agent_results) = 4
    /\ Len(result[1].findings) >= 4
    /\ result[1].agent_results[1].agent_name # agents[1].name

(***************************************************************************)
(* Properties of the order of the files.                                   *)
(***************************************************************************)

\* the indexes of the dispatched files, in parse order
DispatchedFiles ==
    SelectSeq([f \in DOMAIN file_diffs |-> f], LAMBDA f : Dispatched(file_diffs[f]))

\* r is the result of the k-th agent on the file with the code context
IsResultOf(r, k, context) ==
    LET key == <<agents[k], context>>
    IN  key \in DOMAIN llm /\ r = _run_agent(key[1], key[2], llm[key])

\* the results rs are those of the agents on the file with the code
\* context, one each, and in sequential mode in registration order
IsGroupOf(rs, context) ==
    /\ \E order \in [DOMAIN agents -> DOMAIN agents] :
          /\ \A k \in DOMAIN agents : \E m \in DOMAIN agents : order[m] = k
          /\ \A m \in DOMAIN agents : IsResultOf(rs[m], order[m], context)
    /\ ~parallel => \A m \in DOMAIN agents : IsResultOf(rs[m], m, context)

\* the agent-result list is made of one group per dispatched file, in
\* parse order; results beyond the last full group belong to the file the
\* loop is at, whose agents alone are running
GroupedByFile ==
    LET n == Len(agents)
        groups == IF n = 0 THEN 0 ELSE Len(agent_results) \div n
        rest == Len(agent_results) - groups * n
        dispatched == DispatchedFiles
    IN  rpc \in {"files", "pool", "seq", "returned"} =>
          /\ groups <= Len(dispatched)
          /\ \A j \in 1..groups :
                LET context == _prepare_code_context(file_diffs[dispatched[j]])
                IN  /\ IsGroupOf(SubSeq(agent_results, (j - 1) * n + 1, j * n),
                                 context)
                    /\ rpc # "returned" => dispatched[j] <= file_idx
                    /\ (rpc = "files" /\ file_idx <= Len(file_diffs))
                          => dispatched[j] < file_idx
          /\ rest > 0 =>
                /\ rpc \in {"pool", "seq"}
                /\ dispatched[groups + 1] = file_idx
                /\ LET context == _prepare_code_context(file_diff)
                   IN  \A m \in 1..rest :
                          LET r == agent_results[groups * n + m]
                          IN  IF parallel
                              THEN \E k \in DOMAIN agents : IsResultOf(r, k, context)
                              ELSE IsResultOf(r, m, context)
          /\ Reviewed => rest = 0 /\ (n > 0 => groups = Len(dispatched))

\* the futures of the pool are those of the file the loop is at: none is
\* left of an earlier file, and what has been collected of them is what
\* the list holds beyond the groups of the earlier files
OnePoolAtATime ==
    /\ futures # <<>> =>
          /\ rpc = "pool"
          /\ Dispatched(file_diff)
          /\ code_context = Some(_prepare_code_context(file_diff))
          /\ Len(futures) = Len(agents)
          /\ Len(agent_results)
                = Len(agents) * Cardinality({f \in 1..(file_idx - 1) :
                                                Dispatched(file_diffs[f])})
                  + Cardinality({k \in DOMAIN futures :
                                    futures[k].state = "collected"})
    /\ rpc \in {"files", "seq", "returned", "raised", "idle"} => futures = <<>>

\* C25: the files are processed one after another in parse order: the
\* agents of a file are all done and collected before those of the next
\* file start, so the running invocations are those of one file and the
\* agent-result list is grouped by file in parse order; in sequential mode
\* a group is in registration order.
C25_FilesInOrder == GroupedByFile /\ OnePoolAtATime

\* two files are under concurrent review by two agents: the two results
\* of the first are collected, one agent of the second has finished and is
\* not collected, the other is running
C25_Witness ==
    /\ rpc = "pool" /\ parallel
    /\ Len(agents) = 2
    /\ Len(DispatchedFiles) = 2
    /\ file_idx = DispatchedFiles[2]
    /\ Len(agent_results) = 2
    /\ \E k \in DOMAIN futures : futures[k].state = "running"
    /\ \E k \in DOMAIN futures : futures[k].state = "done"

(***************************************************************************)
(* Properties of the termination of review_diff.                           *)
(***************************************************************************)

\* a call of review_diff is under way
Running == rpc \in {"files", "pool", "seq"}

\* the invocations the call makes, or would make, that never return
HungInvocations ==
    { h \in hanging :
        /\ h[1] \in DOMAIN agents
        /\ h[2] \in DOMAIN file_diffs
        /\ Dispatched(file_diffs[h[2]]) }

\* with an invocation that never returns the call never returns and the
\* loop over the files never gets past the file of that invocation
StuckAtHung ==
    (Len(agents) >= 1 /\ HungInvocations # {}) =>
        /\ rpc # "returned"
        /\ \A h \in HungInvocations : file_idx <= h[2]

\* C26: with at least one agent, review_diff returns if and only if every
\* invocation it makes returns or raises: under fair scheduling a call
\* whose invocations all complete returns, and, there being no timeout, a
\* call with one invocation that never returns never returns and never
\* dispatches a later file, in either mode.
C26_ReturnsIffInvocationsDo ==
    /\ (Running /\ Len(agents) >= 1 /\ HungInvocations = {}) ~> (rpc = "returned")
    /\ []StuckAtHung

\* a concurrent review of two files by two agents waits at the first file:
\* one agent is collected, the other never returns
C26_Witness ==
    /\ rpc = "pool" /\ parallel
    /\ Len(agents) = 2
    /\ Len(file_diffs) = 2
    /\ file_idx = 1
    /\ hanging = {<<2, 1>>}
    /\ HungInvocations = hanging
    /\ futures[1].state = "collected"
    /\ futures[2].state = "running"

(***************************************************************************)
(* C27: the lines inside an open hunk                                       *)
(***************************************************************************)

\* the line is a file header, a metadata line or a hunk header
IsStructural(line) ==
    \/ file_header_pattern(line) # None
    \/ hunk_header_pattern(line) # None
    \/ new_file_mode_pattern(line)
    \/ deleted_file_mode_pattern(line)
    \/ rename_from_pattern(line) # None
    \/ rename_to_pattern(line) # None

\* what the first character makes of a line, "none" when nothing
FirstCharKind(line, is_last) ==
    CASE startswith(line, "+") /\ ~startswith(line, "+++") -> "addition"
      [] startswith(line, "-") /\ ~startswith(line, "---") -> "deletion"
      [] startswith(line, " ") \/ (line = "" /\ ~is_last) -> "context"
      [] OTHER -> "none"

\* the scan is at a line inside an open hunk
AtContentLine ==
    /\ pc = "loop" /\ i < Len(lines)
    /\ current_file # None /\ current_hunk # None
    /\ ~IsStructural(lines[i + 1])

\* the line without its marker
Unmarked(line) == IF line = "" THEN "" ELSE Slice(line, 1)

\* the step on a line inside an open hunk
ContentStep ==
    AtContentLine =>
        LET line == lines[i + 1]
            kind == FirstCharKind(line, i + 1 = Len(lines))
            held == current_hunk[1].lines
        IN  /\ pc' = "loop" /\ i' = i + 1
            /\ file_diffs' = file_diffs
            /\ current_file' # None /\ current_hunk' # None
            /\ IF kind = "none"
               THEN current_hunk' = current_hunk /\ current_file' = current_file
               ELSE /\ Len(current_hunk'[1].lines) = Len(held) + 1
                    /\ SubSeq(current_hunk'[1].lines, 1, Len(held)) = held
                    /\ current_hunk'[1].lines[Len(held) + 1].change_type = kind
                    /\ current_hunk'[1].lines[Len(held) + 1].content = Unmarked(line)
                    /\ current_file'[1].additions
                          = current_file[1].additions
                              + (IF kind = "addition" THEN 1 ELSE 0)
                    /\ current_file'[1].deletions
                          = current_file[1].deletions
                              + (IF kind = "deletion" THEN 1 ELSE 0)

\* C27: while a hunk is open, a line that is no header and no metadata
\* line is classified by its first character: "+" but not "+++" appends an
\* addition, "-" but not "---" a deletion, a leading space or an empty line
\* that is not the last line a context line, with the line less its marker
\* as content; every other line appends nothing and changes no total.
C27_ContentByFirstChar == [][ContentStep]_vars

\* a hunk returned with two lines for the three lines "++x", "" and
\* "+++ b/a.py": the addition "+x" and an empty context line
C27_Witness ==
    /\ pc = "returned"
    /\ Len(lines) = 5
    /\ lines[3] = "++x" /\ lines[4] = "" /\ lines[5] = "+++ b/a.py"
    /\ Len(file_diffs) = 1 /\ Len(file_diffs[1].hunks) = 1
    /\ Len(file_diffs[1].hunks[1].lines) = 2
    /\ file_diffs[1].hunks[1].lines[1].content = "+x"
    /\ file_diffs[1].hunks[1].lines[2].change_type = "context"
    /\ file_diffs[1].additions = 1

(***************************************************************************)
(* C28: the lines read while no hunk is open                               *)
(***************************************************************************)

\* the text from its first file header on, nothing when it has none
RECURSIVE FromFirstHeader(_)
FromFirstHeader(ls) ==
    IF ls = <<>> THEN <<>>
    ELSE IF file_header_pattern(Head(ls)) # None THEN ls
    ELSE FromFirstHeader(Tail(ls))

\* the additions, the deletions and the hunks of the open file
OpenTotals ==
    IF current_file = None THEN None
    ELSE <<current_file[1].additions, current_file[1].deletions,
           current_file[1].hunks>>

\* the step on a line that is no file header, with no hunk open: no line
\* is recorded and no total changes; before the first file header the
\* line does nothing at all, and behind a file header a line that is no
\* metadata line and no hunk header does nothing at all
NoHunkStep ==
    (/\ pc = "loop" /\ i < Len(lines)
     /\ current_hunk = None
     /\ file_header_pattern(lines[i + 1]) = None) =>
        /\ pc' = "loop" /\ i' = i + 1
        /\ file_diffs' = file_diffs
        /\ OpenTotals' = OpenTotals
        /\ current_hunk' # None => current_hunk'[1].lines = <<>>
        /\ (current_file = None \/ ~IsStructural(lines[i + 1])) =>
              current_file' = current_file /\ current_hunk' = None

\* parse gives what it gives for the text from the first file header on
PrefixIgnored ==
    pc = "returned" => file_diffs = parse(FromFirstHeader(lines)).file_diffs

\* C28: while no hunk is open no line is recorded and no total changes:
\* a line before the first file header, a hunk header or a metadata line
\* included, opens no hunk and sets no flag, and a "+", "-" or space line
\* between a file header and the first hunk header does nothing; parse of
\* a text is parse of the text from its first file header on.
C28_NothingWithoutHunk == []PrefixIgnored /\ [][NoHunkStep]_vars

\* a "new file mode" line before the file header and an added line behind
\* it: one file returned, not marked new, with no hunk and no addition
C28_Witness ==
    /\ pc = "returned"
    /\ lines = <<"new file mode 100644", "diff --git a/a.py b/a.py", "+x">>
    /\ Len(file_diffs) = 1
    /\ ~file_diffs[1].is_new_file
    /\ file_diffs[1].hunks = <<>>
    /\ file_diffs[1].additions = 0

(***************************************************************************)
(* C29: the two cursors of the scan                                        *)
(***************************************************************************)

\* the n-th smallest number of the set S
Nth(S, n) == CHOOSE x \in S : Cardinality({y \in S : y <= x}) = n

\* the numbers of S in increasing order
Ascending(S) == [n \in 1..Cardinality(S) |-> Nth(S, n)]

\* the places of the file headers in the text ls
HeaderPlaces(ls) == {k \in DOMAIN ls : file_header_pattern(ls[k]) # None}

\* the parts that start at the places of starts: each runs to the place
\* before the next start, the last one to the place to
Parts(starts, to) ==
    [n \in 1..Cardinality(starts) |->
        [from |-> Nth(starts, n),
         to |-> IF n < Cardinality(starts) THEN Nth(starts, n + 1) - 1 ELSE to]]

\* the lines a hunk holds for the places from + 1..to of ls, as pairs of
\* kind and content
LinesWritten(ls, from, to) ==
    LET kept == {k \in (from + 1)..to :
                    /\ ~IsStructural(ls[k])
                    /\ FirstCharKind(ls[k], k = Len(ls)) # "none"}
    IN  [n \in 1..Cardinality(kept) |->
            <<FirstCharKind(ls[Nth(kept, n)], Nth(kept, n) = Len(ls)),
              Unmarked(ls[Nth(kept, n)])>>]

\* the hunks written between the places from + 1..to of ls: for each hunk
\* header its two start numbers and the lines up to the next hunk header
HunksWritten(ls, from, to) ==
    LET parts == Parts({k \in (from + 1)..to : hunk_header_pattern(ls[k]) # None}, to)
    IN  [n \in DOMAIN parts |->
            [old_start |-> hunk_header_pattern(ls[parts[n].from])[1].g1,
             new_start |-> hunk_header_pattern(ls[parts[n].from])[1].g3,
             lines |-> LinesWritten(ls, parts[n].from, parts[n].to)]]

\* the files written in ls: for each file header the hunks up to the next
FilesWritten(ls) ==
    LET parts == Parts(HeaderPlaces(ls), Len(ls))
    IN  [n \in DOMAIN parts |-> HunksWritten(ls, parts[n].from, parts[n].to)]

\* the hunks a file holds, in the same form
HunksHeld(f) ==
    [n \in DOMAIN f.hunks |->
        [old_start |-> f.hunks[n].old_start,
         new_start |-> f.hunks[n].new_start,
         lines |-> [k \in DOMAIN f.hunks[n].lines |->
                      <<f.hunks[n].lines[k].change_type,
                        f.hunks[n].lines[k].content>>]]]

\* the files returned hold the hunks and lines written for them, in order
AllKept ==
    pc = "returned" =>
        [n \in DOMAIN file_diffs |-> HunksHeld(file_diffs[n])]
            = FilesWritten(IF IsBlankText(lines) THEN <<>> ELSE lines)

\* a hunk is open only while a file is open
HunkInsideFile == current_hunk # None => current_file # None

\* a file header leaves no hunk open
HeaderResetsHunk ==
    (pc = "loop" /\ i < Len(lines) /\ file_header_pattern(lines[i + 1]) # None)
        => current_hunk' = None /\ current_file' # None

\* C29: a hunk is open only while a file is open, a file header resets
\* the open hunk, and every hunk opened by a hunk header ends up exactly
\* once in the file that was open when the header was read: the files
\* returned hold, in order, the hunks written behind their headers, and
\* each hunk the lines written behind its header, none dropped, doubled
\* or moved to another file.
C29_CursorsConsistent ==
    /\ []HunkInsideFile
    /\ []AllKept
    /\ [][HeaderResetsHunk]_vars

\* two files returned: the first with a hunk of one line, the second with
\* another hunk
C29_Witness ==
    /\ pc = "returned"
    /\ lines = <<"diff --git a/a.py b/a.py", "@@ -1 +1 @@", "+x",
                 "diff --git a/a.py b/a.py", "@@ -3,2 +5,0 @@ f">>
    /\ Len(file_diffs) = 2
    /\ Len(file_diffs[1].hunks) = 1 /\ Len(file_diffs[1].hunks[1].lines) = 1
    /\ Len(file_diffs[2].hunks) = 1 /\ file_diffs[2].hunks[1].old_start = 3

(***************************************************************************)
(* C30: the rating and the findings                                        *)
(***************************************************************************)

\* the order approve < comment < changes_requested < needs_work
RatingLevel(rating) ==
    CASE rating = "approve" -> 0
      [] rating = "comment" -> 1
      [] rating = "changes_requested" -> 2
      [] rating = "needs_work" -> 3

\* the level of the rating of a finding list
LevelOf(findings) == RatingLevel(_generate_summary(findings).overall_rating)

\* the findings one may add: one of each severity, one of an unknown
\* severity, one without severity
MoreFindings ==
    {LogicFinding(s) : s \in Severities \cup {"bogus"}} \cup {BareFinding}

\* the list without its k-th finding
LessOne(findings, k) ==
    SubSeq(findings, 1, k - 1) \o SubSeq(findings, k + 1, Len(findings))

\* the list with x put in before its k-th finding (at the end for k = Len + 1)
PlusOne(findings, k, x) ==
    SubSeq(findings, 1, k - 1) \o <<x>> \o SubSeq(findings, k, Len(findings))

\* C30: the rating is monotone in the findings, for the order approve <
\* comment < changes_requested < needs_work: a list with one finding more,
\* in front or at the end, is never rated lower, and a list with one
\* finding less never higher, so a review is rated at least as high as
\* any part of its findings.
C30_RatingMonotone ==
    rpc = "returned" =>
        LET level == RatingLevel(result[1].overall_rating)
        IN  /\ level = LevelOf(all_findings)
            /\ \A x \in MoreFindings : \A k \in {1, Len(all_findings) + 1} :
                   LevelOf(PlusOne(all_findings, k, x)) >= level
            /\ \A k \in DOMAIN all_findings :
                   LevelOf(LessOne(all_findings, k)) <= level

\* a list rated "changes_requested" that one more finding takes to
\* "needs_work" and one finding less to "comment"
C30_Witness ==
    /\ rpc = "returned"
    /\ result[1].overall_rating = "changes_requested"
    /\ \E x \in MoreFindings :
          LevelOf(Append(all_findings, x)) = 3
    /\ \E k \in DOMAIN all_findings :
          LevelOf(LessOne(all_findings, k)) = 1

====
